---- MODULE Spec2Model ----
(***************************************************************************)
(* A model of the streaming attention visualizer of                        *)
(* src/frontend/attention.js (class AttentionVisualizer): the debounce      *)
(* timer, processText and its fetch, the stream reader of handleSSEStream,  *)
(* the message dispatch of handleSSEMessage and the views they write.       *)
(*                                                                         *)
(* Text is modelled as sequences of one-character strings, so that trim,    *)
(* split, startsWith and slice are computed as the code computes them.      *)
(* Attention strengths are integers in thousandths (0.05 is 50).            *)
(***************************************************************************)
EXTENDS Integers, Sequences, FiniteSets, TLC

\* ------------------------------------------------------------------ bounds

\* Sessions (requests issued) in one behaviour.
MaxSessions == 2
\* Callbacks of the paste listener that may be pending at once.
MaxPastePending == 1
\* The step by which time may advance when no timer comes due sooner.
TickStep == 500
\* Where a chunk may end inside the `data: ` marker of a frame, and inside its
\* JSON text: after this many characters of each.
PrefixCut == 3
PayloadCut == 1
\* The longest token sequence built from the token alphabet.
MaxTokens == 2
\* The largest row and column step of the generated attention matrices.
MaxSlope == 1
\* The largest layer index of a `layer_attention` message.
MaxLayer == 0

\* -------------------------------------------------------- program constants

\* setTimeout(..., 1000) in debounceInput.
DebounceDelay == 1000
\* setTimeout(..., 10) in the paste listener.
PasteDelay == 10
\* attention > 0.05 in drawWordToWordAttention, in thousandths.
ConnectionThreshold == 50
\* connections.slice(0, Math.min(12, ...)).
MaxConnections == 12
\* rel.strength > 0.03 in displayRelationships, in thousandths.
RelationshipThreshold == 30
\* wordRelationships.slice(0, 8).
MaxRelationships == 8

\* ------------------------------------------------------------ text helpers

Min(a, b) == IF a <= b THEN a ELSE b

Max(a, b) == IF a >= b THEN a ELSE b

IsSpace(c) == c = " " \/ c = "\n"

RECURSIVE TrimStart(_)
TrimStart(s) ==
    IF s # <<>> /\ IsSpace(Head(s)) THEN TrimStart(Tail(s)) ELSE s

RECURSIVE TrimEnd(_)
TrimEnd(s) ==
    IF s # <<>> /\ IsSpace(s[Len(s)]) THEN TrimEnd(SubSeq(s, 1, Len(s) - 1)) ELSE s

\* String.prototype.trim
Trim(s) == TrimEnd(TrimStart(s))

\* String.prototype.startsWith
StartsWith(s, p) == Len(s) >= Len(p) /\ SubSeq(s, 1, Len(p)) = p

\* String.prototype.slice(n)
Slice(s, n) == SubSeq(s, n + 1, Len(s))

\* String.prototype.split('\n'): the pieces between line breaks, empty ones kept
RECURSIVE SplitFrom(_, _, _)
SplitFrom(s, i, cur) ==
    IF i > Len(s) THEN <<cur>>
    ELSE IF s[i] = "\n" THEN <<cur>> \o SplitFrom(s, i + 1, <<>>)
    ELSE SplitFrom(s, i + 1, Append(cur, s[i]))

SplitLines(chunk) == SplitFrom(chunk, 1, <<>>)

\* The offset in the chunk at which each piece of SplitLines starts.
RECURSIVE LineStartsFrom(_, _, _)
LineStartsFrom(s, i, start) ==
    IF i > Len(s) THEN <<start>>
    ELSE IF s[i] = "\n" THEN <<start>> \o LineStartsFrom(s, i + 1, i)
    ELSE LineStartsFrom(s, i + 1, start)

LineStarts(chunk) == LineStartsFrom(chunk, 1, 0)

\* String.prototype.replace(p, '') with a two-character string p: the first
\* occurrence is removed.
RECURSIVE RemoveFirst(_, _)
RemoveFirst(s, p) ==
    IF Len(s) < Len(p) THEN s
    ELSE IF SubSeq(s, 1, Len(p)) = p THEN Slice(s, Len(p))
    ELSE <<Head(s)>> \o RemoveFirst(Tail(s), p)

\* Array.prototype.indexOf, 0-based, -1 when absent
RECURSIVE IndexOfFrom(_, _, _)
IndexOfFrom(seq, x, i) ==
    IF i > Len(seq) THEN -1
    ELSE IF seq[i] = x THEN i - 1
    ELSE IndexOfFrom(seq, x, i + 1)

IndexOf(seq, x) == IndexOfFrom(seq, x, 1)

\* Array.prototype.slice(0, n)
Take(seq, n) == SubSeq(seq, 1, Min(n, Len(seq)))

\* An insertion that puts an element before those of its strength: a sort
\* that does not keep the order of ties.
RECURSIVE InsertBeforeTies(_, _)
InsertBeforeTies(sorted, x) ==
    IF sorted = <<>> THEN <<x>>
    ELSE IF Head(sorted).strength > x.strength
         THEN <<Head(sorted)>> \o InsertBeforeTies(Tail(sorted), x)
         ELSE <<x>> \o sorted

\* Array.prototype.sort((a, b) => b.strength - a.strength): stable, descending
RECURSIVE InsertByStrength(_, _)
InsertByStrength(sorted, x) ==
    IF sorted = <<>> THEN <<x>>
    ELSE IF Head(sorted).strength >= x.strength
         THEN <<Head(sorted)>> \o InsertByStrength(Tail(sorted), x)
         ELSE <<x>> \o sorted

RECURSIVE SortByStrengthFrom(_, _)
SortByStrengthFrom(seq, acc) ==
    IF seq = <<>> THEN acc
    ELSE SortByStrengthFrom(Tail(seq), InsertByStrength(acc, Head(seq)))

SortByStrength(seq) == SortByStrengthFrom(seq, <<>>)

\* ------------------------------------------------- payloads of the backend

\* Tokens, as the backend's tokenizer gives them.
TokCLS == <<"[", "C", "L", "S", "]">>
TokSEP == <<"[", "S", "E", "P", "]">>
TokThe == <<"t", "h", "e">>
TokCat == <<"c", "a", "t">>
TokA == <<"a">>
TokDot == <<".">>
TokSub == <<"#", "#", "s">>
TokChased == <<"c", "h", "a", "s", "e", "d">>
TokMouse == <<"m", "o", "u", "s", "e">>
TokEmpty == <<>>
TokComma == <<",">>
TokBang == <<"!">>
TokQuestion == <<"?">>

\* tokens.data of the two `tokens` messages the model's backend sends.
TokensA == <<TokCLS, TokThe, TokCat, TokDot, TokSEP>>
TokensB == <<TokCLS, TokA, TokCat, TokSub, TokThe, TokSEP>>
\* A text with one word of more than one character.
TokensC == <<TokCLS, TokA, TokCat, TokSEP>>

\* The value `undefined` where a token array is expected: the `data` of a
\* `tokens` message that carries none. It is no token array of the backend.
Undefined == << <<"undefined">> >>

\* [CLS] the cat chased the mouse . [SEP]
TokensSentence ==
    <<TokCLS, TokThe, TokCat, TokChased, TokThe, TokMouse, TokDot, TokSEP>>

\* The tokens the generated sequences are built from: one for each case of
\* the filters of displayTokens and renderAttentionVisualization.
TokenAlphabet ==
    {TokCLS, TokSub, TokEmpty, TokDot, TokComma, TokBang, TokQuestion, TokA, TokThe, TokCat}

SeqsUpTo(S, n) == UNION {[1..k -> S] : k \in 1..n}

\* tokens.data of the `tokens` messages dispatched one by one.
TokenSeqs ==
    SeqsUpTo(TokenAlphabet, MaxTokens) \cup {TokensA, TokensB, TokensC, TokensSentence}

\* The strengths of the generated matrices: the threshold of
\* drawWordToWordAttention, just above it, and a strong one.
Strengths == <<50, 51, 300>>

\* A matrix of `rows` rows of `cols` strengths, entry (i, j) picked from
\* Strengths by a row step a, a column step b and a shift c.
MatrixOf(rows, cols, a, b, c) ==
    [i \in 1..rows |-> [j \in 1..cols |-> Strengths[((a * i + b * j + c) % Len(Strengths)) + 1]]]

\* meaningful_attention.data for a text of n tokens: n rows, or one row short.
MatricesFor(n) ==
    {MatrixOf(rows, n, a, b, c) :
        rows \in {n, Max(n - 1, 0)}, a \in 0..MaxSlope, b \in 0..MaxSlope,
        c \in 0..(Len(Strengths) - 1)}

\* meaningful_attention.data for [CLS] the cat chased the mouse . [SEP]:
\* matrix[2][1] = 0.4 (cat to the) in each; in the second and third also
\* matrix[1][2] = 0.4 and eleven, then twelve, entries of 0.5 among the rows
\* of chased, the and mouse; 0.01 everywhere else.
MatrixSentence(v) ==
    [r \in 1..8 |-> [c \in 1..8 |->
        CASE r - 1 = 2 /\ c - 1 = 1 -> 400
          [] v >= 2 /\ r - 1 = 1 /\ c - 1 = 2 -> 400
          [] v >= 2 /\ r - 1 \in 3..5 /\ c - 1 \in 1..5 /\ c # r
                /\ ~(v = 2 /\ r - 1 = 5 /\ c - 1 = 4) -> 500
          [] OTHER -> 10]]

SentenceMatrices == {MatrixSentence(v) : v \in 1..3}

\* meaningful_attention.data of the messages dispatched one by one.
MatricesOf(tokens) ==
    MatricesFor(Len(tokens)) \cup (IF tokens = TokensSentence THEN SentenceMatrices ELSE {})

\* meaningful_attention.data: one row per token, in thousandths.
MatrixA ==
    << <<0, 0, 0, 0, 0>>,
       <<0, 0, 300, 0, 0>>,
       <<0, 400, 0, 0, 0>>,
       <<0, 0, 0, 0, 0>>,
       <<0, 0, 0, 0, 0>> >>

\* relationships.data
RelsA ==
    << [from_token |-> TokCat, to_token |-> TokThe, strength |-> 400],
       [from_token |-> TokThe, to_token |-> TokCLS, strength |-> 500],
       [from_token |-> TokThe, to_token |-> TokCat, strength |-> 20] >>

Rel(from, to, strength) == [from_token |-> from, to_token |-> to, strength |-> strength]

\* relationships.data with every entry at 0.02.
RelsWeak == << Rel(TokThe, TokCat, 20), Rel(TokCat, TokThe, 20) >>

\* relationships.data with eleven entries between words above 0.03, two of
\* them equal, one entry at 0.03 and three with a token that is no word.
RelsMany ==
    << Rel(TokThe, TokCat, 300), Rel(TokCat, TokThe, 31), Rel(TokA, TokCat, 30),
       Rel(TokCat, TokMouse, 500), Rel(TokCLS, TokThe, 900), Rel(TokMouse, TokCat, 500),
       Rel(TokThe, TokDot, 800), Rel(TokThe, TokMouse, 100), Rel(TokSub, TokCat, 700),
       Rel(TokMouse, TokThe, 200), Rel(TokChased, TokMouse, 400),
       Rel(TokChased, TokCat, 450), Rel(TokCat, TokChased, 50),
       Rel(TokChased, TokThe, 60), Rel(TokThe, TokChased, 31) >>

\* relationships.data of the `relationships` messages dispatched one by one.
RelationshipSets == {<<>>, RelsA, RelsWeak, RelsMany}

\* message of the `error` messages dispatched one by one.
ErrorTexts == {"Model inference failed", "Text too long"}

NoData == [tokens |-> <<>>, matrix |-> <<>>, rels |-> <<>>, layer |-> 0, message |-> ""]

\* The messages JSON.parse can return, by the text between the braces.
Payload ==
    [ tokenization |-> [NoData EXCEPT !.message = "tokenization"],
      tokensA |-> [NoData EXCEPT !.tokens = TokensA],
      tokensB |-> [NoData EXCEPT !.tokens = TokensB],
      tokensC |-> [NoData EXCEPT !.tokens = TokensC],
      tokensNone |-> [NoData EXCEPT !.tokens = Undefined],
      layer |-> [NoData EXCEPT !.layer = 0],
      attention |-> [NoData EXCEPT !.matrix = MatrixA],
      relationships |-> [NoData EXCEPT !.rels = RelsA],
      complete |-> NoData,
      error |-> [NoData EXCEPT !.message = "Model inference failed"] ]

\* data.type of each message.
TypeOf ==
    [ tokenization |-> "tokenization",
      tokensA |-> "tokens",
      tokensB |-> "tokens",
      tokensC |-> "tokens",
      tokensNone |-> "tokens",
      layer |-> "layer_attention",
      attention |-> "meaningful_attention",
      relationships |-> "relationships",
      complete |-> "complete",
      error |-> "error" ]

\* A JSON text is "{" body "}" with the body one symbol; a frame of the
\* event stream is `data: <JSON>\n\n`.
DataPrefix == <<"d", "a", "t", "a", ":", " ">>

Json(key) == <<"{", key, "}">>

\* A payload the backend cut short: no closing brace.
BadJson == <<"{", "tokensA">>

Frame(body) == DataPrefix \o body \o <<"\n", "\n">>

RECURSIVE Concat(_)
Concat(seqs) == IF seqs = <<>> THEN <<>> ELSE Head(seqs) \o Concat(Tail(seqs))

\* The bodies of the frames of each response stream the model's backend sends.
StreamFrames ==
    << <<Json("tokensA"), Json("attention"), Json("complete")>>,
       <<BadJson, Json("relationships")>>,
       <<Json("error"), Json("tokensB")>>,
       <<Json("tokenization"), Json("layer"), Json("complete")>>,
       <<BadJson, Json("tokensC"), Json("attention"), Json("complete")>>,
       <<Json("tokensNone"), Json("complete"), Json("relationships")>> >>

\* The streams the backend answers with where the network cuts them.
StreamIds == {1, 2, 3, 4, 6}

\* The streams the backend answers with where time is modelled.
TypingStreamIds == {1, 3, 5}

\* The text of each response stream.
StreamTexts ==
    [id \in 1..Len(StreamFrames) |->
        Concat([k \in 1..Len(StreamFrames[id]) |-> Frame(StreamFrames[id][k])])]

StreamText(id) == StreamTexts[id]

\* The offsets at which the network may cut a stream into chunks: inside the
\* `data: ` marker, inside the JSON text, and at the end of a frame.
RECURSIVE CutsFrom(_, _, _)
CutsFrom(frames, k, start) ==
    IF k > Len(frames) THEN {}
    ELSE LET len == Len(Frame(frames[k]))
         IN {start + PrefixCut, start + Len(DataPrefix) + PayloadCut, start + len}
            \cup CutsFrom(frames, k + 1, start + len)

CutOffsets == [id \in 1..Len(StreamFrames) |-> CutsFrom(StreamFrames[id], 1, 0)]

EndOffsets == [id \in 1..Len(StreamFrames) |-> {Len(StreamTexts[id])}]

\* JSON.parse: Ok is FALSE when it throws.
JsonParse(text) ==
    IF Len(text) = 3 /\ text[1] = "{" /\ text[3] = "}" /\ text[2] \in DOMAIN Payload
    THEN [ok |-> TRUE, key |-> text[2]]
    ELSE [ok |-> FALSE, key |-> ""]

\* ------------------------------------------------ the visualizer's state

\* this.currentAttentionData: null, or the matrix of a message.
Null == [isNull |-> TRUE, rows |-> <<>>]

Matrix(rows) == [isNull |-> FALSE, rows |-> rows]

\* The <svg> after selectAll('*').remove().
SvgEmpty ==
    [groups |-> <<>>, lines |-> <<>>, circles |-> <<>>, labels |-> <<>>,
     texts |-> <<>>, center |-> FALSE]

\* The three groups initializeVisualization and renderWordOnlyVisualization append.
SvgGroups ==
    [SvgEmpty EXCEPT !.groups = <<"attention-lines", "token-nodes", "token-labels">>]

\* The object after the constructor, with the elements it caches.
InitApp ==
    [ currentTokens |-> <<>>,
      currentAttentionData |-> Null,
      currentRelationships |-> <<>>,
      eventSource |-> "null",
      debounceTimer |-> 0,
      isProcessing |-> FALSE,
      charCount |-> [length |-> 0, className |-> "text-sm text-gray-500"],
      processingStatus |-> [text |-> "", className |-> ""],
      textInputProcessing |-> FALSE,
      progressIndicatorHidden |-> TRUE,
      visualizationSectionHidden |-> TRUE,
      tokensDisplay |-> <<>>,
      layerInfo |-> "",
      relationshipsContainerHidden |-> TRUE,
      relationshipsList |-> <<>>,
      width |-> 800,
      height |-> 650,
      svg |-> SvgGroups ]

updateCharCount(a, length) ==
    [a EXCEPT !.charCount =
        [length |-> length,
         className |-> IF length > 900 THEN "text-sm text-red-600 font-medium"
                       ELSE IF length > 800 THEN "text-sm text-yellow-600"
                       ELSE "text-sm text-gray-500"]]

updateStatus(a, message) ==
    [a EXCEPT !.processingStatus = [text |-> message, className |-> "text-sm text-blue-600"]]

showProcessingState(a) ==
    [a EXCEPT !.progressIndicatorHidden = FALSE, !.textInputProcessing = TRUE]

hideProcessingIndicator(a) ==
    [a EXCEPT !.progressIndicatorHidden = TRUE, !.textInputProcessing = FALSE]

\* showError writing a fixed text in place of its message.
showErrorFixedText(a, message) ==
    hideProcessingIndicator(
        [a EXCEPT !.processingStatus = [text |-> "Error", className |-> "text-sm text-red-600"]])

\* showError without its call of hideProcessingIndicator.
showErrorStatusOnly(a, message) ==
    [a EXCEPT !.processingStatus = [text |-> message, className |-> "text-sm text-red-600"]]

showError(a, message) ==
    hideProcessingIndicator(
        [a EXCEPT !.processingStatus = [text |-> message, className |-> "text-sm text-red-600"]])

\* `Processing layer ${currentLayer + 1}`
LayerInfoText(layer) ==
    CASE layer = 0 -> "Processing layer 1"
      [] layer = 1 -> "Processing layer 2"
      [] OTHER -> "Processing layer n"

\* `Processing layer ${data.layer + 1}...`
LayerStatusText(layer) ==
    CASE layer = 0 -> "Processing layer 1..."
      [] layer = 1 -> "Processing layer 2..."
      [] OTHER -> "Processing layer n..."

\* updateLayerProgress writing its text into the token list element.
updateLayerProgressInTokens(a, currentLayer) ==
    [a EXCEPT !.layerInfo = LayerInfoText(currentLayer), !.tokensDisplay = <<>>]

updateLayerProgress(a, currentLayer) ==
    [a EXCEPT !.layerInfo = LayerInfoText(currentLayer)]

\* clearVisualization emptying the views but keeping the stored data.
clearVisualizationKeepingData(a) ==
    [a EXCEPT !.tokensDisplay = <<>>,
              !.relationshipsList = <<>>,
              !.relationshipsContainerHidden = TRUE,
              !.svg = SvgEmpty]

clearVisualization(a) ==
    [a EXCEPT !.tokensDisplay = <<>>,
              !.relationshipsList = <<>>,
              !.relationshipsContainerHidden = TRUE,
              !.svg = SvgEmpty,
              !.currentTokens = <<>>,
              !.currentAttentionData = Null,
              !.currentRelationships = <<>>]

\* hideVisualization without its call of clearVisualization.
hideVisualizationOnly(a) == [a EXCEPT !.visualizationSectionHidden = TRUE]

hideVisualization(a) ==
    clearVisualization([a EXCEPT !.visualizationSectionHidden = TRUE])

\* ------------------------------------------------------- token chip list

\* The filter of displayTokens.
IsDisplayToken(token) ==
    /\ ~StartsWith(token, <<"[">>)
    /\ ~StartsWith(token, <<"#", "#">>)
    /\ Len(token) > 0
    /\ token # <<".">>
    /\ token # <<",">>
    /\ token # <<"!">>
    /\ token # <<"?">>

\* With `undefined` for tokens it stores it, empties the container and throws
\* at tokens.filter.
displayTokens(a, tokens) ==
    IF tokens = Undefined
    THEN [a EXCEPT !.currentTokens = Undefined, !.tokensDisplay = <<>>]
    ELSE
    LET meaningfulTokens == SelectSeq(tokens, IsDisplayToken)
        chips == [d \in 1..Len(meaningfulTokens) |->
                    [text |-> meaningfulTokens[d],
                     dataIndex |-> IndexOf(tokens, meaningfulTokens[d]),
                     displayIndex |-> d - 1,
                     classes |-> {"token", "fade-in"}]]
    IN [a EXCEPT !.currentTokens = tokens,
                 !.tokensDisplay = chips,
                 !.visualizationSectionHidden = FALSE]

\* ------------------------------------------------------------- the graph

\* showNoVisualizationMessage without its selectAll('*').remove().
showNoVisualizationMessageKeepingGroups(a, message) ==
    [a EXCEPT !.svg.texts = <<message, "Try a sentence with multiple related words">>]

showNoVisualizationMessage(a, message) ==
    [a EXCEPT !.svg = [SvgEmpty EXCEPT !.texts =
                          <<message, "Try a sentence with multiple related words">>]]

\* The filter of renderAttentionVisualization, on {token, originalIndex, cleanToken}.
IsGraphToken(data) ==
    /\ ~StartsWith(data.token, <<"[">>)
    /\ ~StartsWith(data.token, <<"#", "#">>)
    /\ Len(data.token) > 1
    /\ data.token # <<".">>

FilteredTokenData(tokens) ==
    SelectSeq([i \in 1..Len(tokens) |->
                  [token |-> tokens[i],
                   originalIndex |-> i - 1,
                   cleanToken |-> RemoveFirst(tokens[i], <<"#", "#">>)]],
              IsGraphToken)

\* Lengths on the canvas are counted in ten-thousandths of a pixel, radii in
\* tenths of a pixel, cosines and sines in thousandths.
Px(n) == n * 10000

Padding == 50

RadiusCap == 140

\* Math.cos and Math.sin of 2 * PI * i / n - PI / 2, in thousandths, row n
\* of each table for a circle of n positions.
Cosines ==
    << <<0>>,
       <<0, 0>>,
       <<0, 866, -866>>,
       <<0, 1000, 0, -1000>>,
       <<0, 951, 588, -588, -951>>,
       <<0, 866, 866, 0, -866, -866>> >>

Sines ==
    << <<-1000>>,
       <<-1000, 1000>>,
       <<-1000, 500, 500>>,
       <<-1000, 0, 1000, 0>>,
       <<-1000, -309, 809, 809, -309>>,
       <<-1000, -500, 500, 1000, 500, -500>> >>

\* centerX = width * 0.35 and centerY = height * 0.45
CenterX(width) == width * 3500

CenterY(height) == height * 4500

\* Math.min(maxRadiusX, maxRadiusY, 140), in tenths of a pixel.
Radius(width, height) ==
    Min(Min((width * 6 - Padding * 10) \div 2, (height * 10 - 2 * Padding * 10) \div 2),
        RadiusCap * 10)

\* Math.min((width * 0.5 - 2 * padding) / 2, (height - 2 * padding) / 2) * 0.8,
\* in tenths of a pixel.
SafeRadius(width, height) ==
    (Min(width * 5 - 2 * Padding * 10, height * 10 - 2 * Padding * 10) * 8) \div 20

\* The n points of the circle of this radius.
Circle(n, width, height, radius) ==
    [i \in 1..n |-> [x |-> CenterX(width) + radius * Cosines[n][i],
                     y |-> CenterY(height) + radius * Sines[n][i]]]

OutOfBounds(points, width, height) ==
    \E i \in 1..Len(points) :
        \/ points[i].x < Px(Padding)
        \/ points[i].x > Px(width - Padding)
        \/ points[i].y < Px(Padding)
        \/ points[i].y > Px(height - Padding)

\* The coordinates renderWordOnlyVisualization gives n tokens: on the circle
\* of the radius, and on that of the safe radius if any of them is out of
\* bounds.
Layout(n, width, height) ==
    LET first == Circle(n, width, height, Radius(width, height))
    IN IF OutOfBounds(first, width, height)
       THEN Circle(n, width, height, SafeRadius(width, height))
       ELSE first

\* The positions carrying the display index as their original index.
PositionsDisplayIndexed(filteredTokenData, width, height) ==
    LET layout == Layout(Len(filteredTokenData), width, height)
    IN [i \in 1..Len(filteredTokenData) |->
          [x |-> layout[i].x,
           y |-> layout[i].y,
           token |-> filteredTokenData[i].cleanToken,
           originalIndex |-> i - 1,
           displayIndex |-> i - 1]]

\* The positions of renderWordOnlyVisualization.
Positions(filteredTokenData, width, height) ==
    LET layout == Layout(Len(filteredTokenData), width, height)
    IN [i \in 1..Len(filteredTokenData) |->
          [x |-> layout[i].x,
           y |-> layout[i].y,
           token |-> filteredTokenData[i].cleanToken,
           originalIndex |-> filteredTokenData[i].originalIndex,
           displayIndex |-> i - 1]]

\* The candidate connections of drawWordToWordAttention, pair k of the
\* row-major enumeration (i, j) onwards.
RECURSIVE CandidatesFrom(_, _, _)
CandidatesFrom(positions, rows, k) ==
    LET n == Len(positions)
        i == k \div n
        j == k % n
        fromIdx == positions[i + 1].originalIndex
        toIdx == positions[j + 1].originalIndex
        inRange == fromIdx < Len(rows) /\ toIdx < Len(rows[fromIdx + 1])
        attention == rows[fromIdx + 1][toIdx + 1]
    IN IF k >= n * n THEN <<>>
       ELSE IF i # j /\ inRange /\ attention > ConnectionThreshold
            THEN << [fromIndex |-> i, toIndex |-> j, strength |-> attention,
                     fromToken |-> positions[i + 1].token,
                     toToken |-> positions[j + 1].token] >>
                 \o CandidatesFrom(positions, rows, k + 1)
            ELSE CandidatesFrom(positions, rows, k + 1)

\* The slice taken without the sort before it.
TopConnectionsUnsorted(positions, rows) ==
    Take(CandidatesFrom(positions, rows, 0), MaxConnections)

TopConnections(positions, rows) ==
    Take(SortByStrength(CandidatesFrom(positions, rows, 0)), MaxConnections)

\* Math.max(2, strength * 12) and Math.max(4, strength * 18): the widths of
\* a line at rest and of a line pointed at, in thousandths.
RestWidth(strength) == Max(2000, strength * 12)

HoverWidth(strength) == Max(4000, strength * 18)

\* Math.max(0.7, strength): the opacity the transition of a line ends at.
RestOpacity(strength) == Max(700, strength)

\* No inline opacity on a line.
NoStyle == -1

\* The <path> of a connection: its end points, the attributes stroke-width
\* and opacity (as the fade-in leaves it), and the inline style opacity.
AttentionLine(conn, positions) ==
    [fromIndex |-> conn.fromIndex,
     toIndex |-> conn.toIndex,
     strength |-> conn.strength,
     fromToken |-> conn.fromToken,
     toToken |-> conn.toToken,
     x1 |-> positions[conn.fromIndex + 1].x,
     y1 |-> positions[conn.fromIndex + 1].y,
     x2 |-> positions[conn.toIndex + 1].x,
     y2 |-> positions[conn.toIndex + 1].y,
     strokeWidth |-> RestWidth(conn.strength),
     opacity |-> RestOpacity(conn.strength),
     styleOpacity |-> NoStyle]

drawWordToWordAttention(a, positions, rows) ==
    LET topConnections == TopConnections(positions, rows)
    IN IF Len(topConnections) = 0
       THEN showNoVisualizationMessage(a,
                "No significant attention patterns between words detected")
       ELSE [a EXCEPT !.svg.lines =
               [k \in 1..Len(topConnections) |-> AttentionLine(topConnections[k], positions)]]

\* Circles and labels are appended to their group; select() of a group that
\* is not there gives an empty selection and nothing is appended.
drawWordNodes(a, positions) ==
    IF \E g \in 1..Len(a.svg.groups) : a.svg.groups[g] = "token-nodes"
    THEN [a EXCEPT !.svg.circles =
            [i \in 1..Len(positions) |->
                [index |-> positions[i].displayIndex,
                 cx |-> positions[i].x,
                 cy |-> positions[i].y,
                 classes |-> {"token-circle", "word-token"}]]]
    ELSE a

drawWordLabels(a, positions) ==
    IF \E g \in 1..Len(a.svg.groups) : a.svg.groups[g] = "token-labels"
    THEN [a EXCEPT !.svg.labels =
            [i \in 1..Len(positions) |->
                [index |-> positions[i].displayIndex,
                 x |-> positions[i].x,
                 y |-> positions[i].y + Px(30),
                 text |-> positions[i].token,
                 classes |-> {"token-label", "word-label"}]]]
    ELSE a

addWordAttentionExplanation(a) == [a EXCEPT !.svg.center = TRUE]

renderWordOnlyVisualization(a, filteredTokenData, rows) ==
    LET positions == Positions(filteredTokenData, a.width, a.height)
        cleared == [a EXCEPT !.svg = SvgGroups]
    IN addWordAttentionExplanation(
           drawWordLabels(
               drawWordNodes(
                   drawWordToWordAttention(cleared, positions, rows),
                   positions),
               positions))

\* With `undefined` stored for the tokens it throws at `.length`, before any
\* effect.
renderAttentionVisualization(a) ==
    IF a.currentTokens = Undefined \/ Len(a.currentTokens) = 0
       \/ a.currentAttentionData.isNull
    THEN a
    ELSE LET filteredTokenData == FilteredTokenData(a.currentTokens)
         IN IF Len(filteredTokenData) < 2
            THEN showNoVisualizationMessage(a,
                     "Not enough meaningful words to visualize attention patterns")
            ELSE renderWordOnlyVisualization(a, filteredTokenData,
                                             a.currentAttentionData.rows)

\* --------------------------------------------------- the relationship list

IsWord(token) == IsDisplayToken(token)

\* The filter of displayRelationships without its threshold.
IsWordRelationshipAnyStrength(rel) ==
    /\ IsWord(rel.from_token)
    /\ IsWord(rel.to_token)

IsWordRelationship(rel) ==
    /\ IsWord(rel.from_token)
    /\ IsWord(rel.to_token)
    /\ rel.strength > RelationshipThreshold

\* displayRelationships showing the container without rebuilding the list.
displayRelationshipsStale(a, relationships) ==
    [a EXCEPT !.relationshipsContainerHidden = FALSE]

\* displayRelationships keeping only the entries between tokens of the text.
displayRelationshipsOfTokens(a, relationships) ==
    LET InText(token) == \E i \in 1..Len(a.currentTokens) : a.currentTokens[i] = token
        OfText(rel) == IsWordRelationship(rel) /\ InText(rel.from_token) /\ InText(rel.to_token)
        wordRelationships == SelectSeq(relationships, OfText)
        topWordRelationships == Take(SortByStrength(wordRelationships), MaxRelationships)
        placeholder == [kind |-> "placeholder", fromToken |-> <<>>, toToken |-> <<>>,
                        strength |-> 0]
        items == [k \in 1..Len(topWordRelationships) |->
                    [kind |-> "relationship",
                     fromToken |-> RemoveFirst(topWordRelationships[k].from_token, <<"#", "#">>),
                     toToken |-> RemoveFirst(topWordRelationships[k].to_token, <<"#", "#">>),
                     strength |-> topWordRelationships[k].strength]]
    IN [a EXCEPT !.relationshipsList =
                    IF Len(topWordRelationships) = 0 THEN <<placeholder>> ELSE items,
                 !.relationshipsContainerHidden = FALSE]

displayRelationships(a, relationships) ==
    LET wordRelationships == SelectSeq(relationships, IsWordRelationship)
        topWordRelationships == Take(SortByStrength(wordRelationships), MaxRelationships)
        placeholder == [kind |-> "placeholder", fromToken |-> <<>>, toToken |-> <<>>,
                        strength |-> 0]
        items == [k \in 1..Len(topWordRelationships) |->
                    [kind |-> "relationship",
                     fromToken |-> RemoveFirst(topWordRelationships[k].from_token, <<"#", "#">>),
                     toToken |-> RemoveFirst(topWordRelationships[k].to_token, <<"#", "#">>),
                     strength |-> topWordRelationships[k].strength]]
    IN [a EXCEPT !.relationshipsList =
                    IF Len(topWordRelationships) = 0 THEN <<placeholder>> ELSE items,
                 !.relationshipsContainerHidden = FALSE]

\* ---------------------------------------------------------- highlighting

\* classList.add and classList.remove on element k of a list of elements;
\* the i of forEach((node, i) => ...) is k - 1.
AddClasses(el, cls) == [el EXCEPT !.classes = @ \cup cls]

RemoveClasses(el, cls) == [el EXCEPT !.classes = @ \ cls]

\* selection.classed(cls, on)
Classed(el, cls, on) == IF on THEN AddClasses(el, {cls}) ELSE RemoveClasses(el, {cls})

\* highlightWordConnections removing the lines it should dim.
highlightWordConnectionsDroppingOthers(a, tokenIndex) ==
    LET circles == a.svg.circles
        labels == a.svg.labels
        Touches(line) == line.fromIndex = tokenIndex \/ line.toIndex = tokenIndex
        lines == SelectSeq(a.svg.lines, Touches)
    IN [a EXCEPT
          !.svg.circles = [k \in 1..Len(circles) |->
              IF k - 1 = tokenIndex
              THEN AddClasses(circles[k], {"highlighted"})
              ELSE RemoveClasses(circles[k], {"highlighted", "source", "target"})],
          !.svg.labels = [k \in 1..Len(labels) |->
              Classed(labels[k], "highlighted", k - 1 = tokenIndex)],
          !.svg.lines = [k \in 1..Len(lines) |->
              [lines[k] EXCEPT
                  !.styleOpacity = 1000,
                  !.strokeWidth = HoverWidth(lines[k].strength)]]]

highlightWordConnections(a, tokenIndex) ==
    LET circles == a.svg.circles
        labels == a.svg.labels
        lines == a.svg.lines
        Touches(line) == line.fromIndex = tokenIndex \/ line.toIndex = tokenIndex
    IN [a EXCEPT
          !.svg.circles = [k \in 1..Len(circles) |->
              IF k - 1 = tokenIndex
              THEN AddClasses(circles[k], {"highlighted"})
              ELSE RemoveClasses(circles[k], {"highlighted", "source", "target"})],
          !.svg.labels = [k \in 1..Len(labels) |->
              Classed(labels[k], "highlighted", k - 1 = tokenIndex)],
          !.svg.lines = [k \in 1..Len(lines) |->
              [lines[k] EXCEPT
                  !.styleOpacity = IF Touches(lines[k]) THEN 1000 ELSE 200,
                  !.strokeWidth = IF Touches(lines[k])
                                  THEN HoverWidth(lines[k].strength)
                                  ELSE RestWidth(lines[k].strength)]]]

highlightWordPair(a, fromIndex, toIndex) ==
    LET circles == a.svg.circles
        labels == a.svg.labels
        Bare(k) == RemoveClasses(circles[k], {"highlighted", "source", "target"})
    IN [a EXCEPT
          !.svg.circles = [k \in 1..Len(circles) |->
              IF k - 1 = fromIndex THEN AddClasses(Bare(k), {"highlighted", "source"})
              ELSE IF k - 1 = toIndex THEN AddClasses(Bare(k), {"highlighted", "target"})
              ELSE Bare(k)],
          !.svg.labels = [k \in 1..Len(labels) |->
              Classed(labels[k], "highlighted", k - 1 = fromIndex \/ k - 1 = toIndex)]]

\* highlightToken giving every line the opacity of a line of the token.
highlightTokenAllBright(a, index) ==
    LET chips == a.tokensDisplay
        circles == a.svg.circles
        labels == a.svg.labels
        lines == a.svg.lines
    IN [a EXCEPT
          !.tokensDisplay = [k \in 1..Len(chips) |->
              Classed(chips[k], "active", k - 1 = index)],
          !.svg.circles = [k \in 1..Len(circles) |->
              Classed(circles[k], "highlighted", k - 1 = index)],
          !.svg.labels = [k \in 1..Len(labels) |->
              Classed(labels[k], "highlighted", k - 1 = index)],
          !.svg.lines = [k \in 1..Len(lines) |-> [lines[k] EXCEPT !.styleOpacity = 800]]]

highlightToken(a, index) ==
    LET chips == a.tokensDisplay
        circles == a.svg.circles
        labels == a.svg.labels
        lines == a.svg.lines
    IN [a EXCEPT
          !.tokensDisplay = [k \in 1..Len(chips) |->
              Classed(chips[k], "active", k - 1 = index)],
          !.svg.circles = [k \in 1..Len(circles) |->
              Classed(circles[k], "highlighted", k - 1 = index)],
          !.svg.labels = [k \in 1..Len(labels) |->
              Classed(labels[k], "highlighted", k - 1 = index)],
          !.svg.lines = [k \in 1..Len(lines) |->
              [lines[k] EXCEPT !.styleOpacity =
                  IF lines[k].fromIndex = index \/ lines[k].toIndex = index
                  THEN 800 ELSE 100]]]

unhighlightTokens(a) ==
    LET chips == a.tokensDisplay
        circles == a.svg.circles
        labels == a.svg.labels
        lines == a.svg.lines
    IN [a EXCEPT
          !.tokensDisplay = [k \in 1..Len(chips) |->
              RemoveClasses(chips[k], {"active"})],
          !.svg.circles = [k \in 1..Len(circles) |->
              RemoveClasses(circles[k], {"highlighted", "source", "target"})],
          !.svg.labels = [k \in 1..Len(labels) |->
              RemoveClasses(labels[k], {"highlighted"})],
          !.svg.lines = [k \in 1..Len(lines) |->
              [lines[k] EXCEPT !.styleOpacity = NoStyle]]]

\* focusToken: the announcement to screen readers is outside the state.
focusToken(a, index) == highlightToken(a, index)

\* String.prototype.includes
Includes(text, part) ==
    \E start \in 1..(Len(text) - Len(part) + 1) :
        \A k \in 1..Len(part) : text[start + k - 1] = part[k]

findTokenDisplayIndex(a, tokenText) ==
    LET labels == a.svg.labels
        hits == {i \in 1..Len(labels) :
                    labels[i].text = tokenText \/ Includes(labels[i].text, tokenText)}
    IN IF hits = {} THEN -1
       ELSE (CHOOSE i \in hits : \A j \in hits : i <= j) - 1

highlightRelationship(a, fromIndex, toIndex) ==
    LET chips == a.tokensDisplay
        lines == a.svg.lines
    IN [a EXCEPT
          !.tokensDisplay = [k \in 1..Len(chips) |->
              IF k - 1 = fromIndex THEN AddClasses(chips[k], {"source"})
              ELSE IF k - 1 = toIndex THEN AddClasses(chips[k], {"target"})
              ELSE RemoveClasses(chips[k], {"source", "target", "active"})],
          !.svg.lines = [k \in 1..Len(lines) |->
              [lines[k] EXCEPT !.styleOpacity =
                  IF lines[k].fromIndex = fromIndex /\ lines[k].toIndex = toIndex
                  THEN 1000 ELSE 100]]]

\* The mouseenter listener of item k of the relationship list.
relationshipItemMouseEnter(a, k) ==
    LET fromDisplayIndex == findTokenDisplayIndex(a, a.relationshipsList[k].fromToken)
        toDisplayIndex == findTokenDisplayIndex(a, a.relationshipsList[k].toToken)
    IN IF fromDisplayIndex # -1 /\ toDisplayIndex # -1
       THEN highlightRelationship(a, fromDisplayIndex, toDisplayIndex)
       ELSE a

\* The mouseover and mouseout listeners of line k of the graph.
lineMouseOver(a, k) ==
    LET line == a.svg.lines[k]
    IN highlightWordPair(
           [a EXCEPT !.svg.lines[k].strokeWidth = HoverWidth(line.strength),
                     !.svg.lines[k].opacity = 1000],
           line.fromIndex, line.toIndex)

lineMouseOut(a, k) ==
    LET line == a.svg.lines[k]
    IN unhighlightTokens(
           [a EXCEPT !.svg.lines[k].strokeWidth = RestWidth(line.strength),
                     !.svg.lines[k].opacity = RestOpacity(line.strength)])

\* initializeVisualization with the container's rectangle, and the resize
\* listener of the window.
initializeVisualization(a, rect) ==
    [a EXCEPT !.width = IF rect[1] = 0 THEN 800 ELSE rect[1],
              !.height = IF rect[2] = 0 THEN 650 ELSE rect[2],
              !.svg = SvgGroups]

resize(a, rect) ==
    LET fresh == initializeVisualization(a, rect)
    IN IF fresh.currentTokens # Undefined /\ Len(fresh.currentTokens) > 0
       THEN renderAttentionVisualization(fresh)
       ELSE fresh

\* ------------------------------------------------------- message dispatch

\* handleSSEMessage(data) throws: a `tokens` message without data throws in
\* displayTokens, and `complete` throws in renderAttentionVisualization when
\* `undefined` is stored for the tokens.
Throws(a, type, data) ==
    \/ type = "tokens" /\ data.tokens = Undefined
    \/ type = "complete" /\ a.currentTokens = Undefined

\* handleSSEMessage(data): the switch on data.type, `data` holding the fields
\* of the message (tokens, matrix and rels are its data.data). When a call
\* throws, the statements of the case after it are not run.
handleSSEData(a, type, data) ==
    IF Throws(a, type, data)
    THEN IF type = "tokens" THEN displayTokens(a, data.tokens)
                            ELSE renderAttentionVisualization(a)
    ELSE
       CASE type = "tokenization" ->
              updateStatus(a, "Tokenizing text...")
         [] type = "tokens" ->
              updateStatus(displayTokens(a, data.tokens), "Analyzing attention patterns...")
         [] type = "layer_attention" ->
              updateStatus(updateLayerProgress(a, data.layer), LayerStatusText(data.layer))
         [] type = "meaningful_attention" ->
              updateStatus([a EXCEPT !.currentAttentionData = Matrix(data.matrix)],
                           "Generating visualization...")
         [] type = "relationships" ->
              updateStatus(
                  displayRelationships([a EXCEPT !.currentRelationships = data.rels],
                                       data.rels),
                  "Finalizing visualization...")
         [] type = "complete" ->
              [hideProcessingIndicator(
                   updateStatus(renderAttentionVisualization(a), "Complete!"))
               EXCEPT !.isProcessing = FALSE]
         [] type = "error" ->
              [showError(a, data.message) EXCEPT !.isProcessing = FALSE]
         [] OTHER -> a

\* handleSSEMessage(data), data the message JSON.parse returned for `key`.
handleSSEMessage(a, key) == handleSSEData(a, TypeOf[key], Payload[key])

\* ------------------------------------------------------ the stream reader

\* The for loop of readStream over the lines of one chunk: a line that starts
\* with `data: ` is parsed and dispatched; a throw of JSON.parse or of
\* handleSSEMessage is caught and logged, and the loop goes on. `base` is the chunk's offset in the stream;
\* the log records each dispatch with the offset of its line.
RECURSIVE ProcessLines(_, _, _, _, _, _)
ProcessLines(a, log, lines, starts, base, k) ==
    IF k > Len(lines) THEN [app |-> a, log |-> log]
    ELSE LET line == lines[k]
             parsed == JsonParse(Slice(line, 6))
         IN IF StartsWith(line, DataPrefix) /\ parsed.ok
            THEN ProcessLines(handleSSEMessage(a, parsed.key),
                              Append(log, [off |-> base + starts[k], key |-> parsed.key]),
                              lines, starts, base, k + 1)
            ELSE ProcessLines(a, log, lines, starts, base, k + 1)

Reverse(seq) == [i \in 1..Len(seq) |-> seq[Len(seq) + 1 - i]]

\* The lines of a chunk taken last to first.
ProcessChunkBackwards(a, log, chunk, base) ==
    ProcessLines(a, log, Reverse(SplitLines(chunk)), Reverse(LineStarts(chunk)), base, 1)

\* The for loop left at the first `tokens` message without data, as if its
\* throw were not caught for each line.
ProcessChunkUntilThrow(a, log, chunk, base) ==
    LET lines == SplitLines(chunk)
        throwing == {k \in 1..Len(lines) :
                        /\ StartsWith(lines[k], DataPrefix)
                        /\ JsonParse(Slice(lines[k], 6)).ok
                        /\ Payload[JsonParse(Slice(lines[k], 6)).key].tokens = Undefined}
        last == IF throwing = {} THEN Len(lines)
                ELSE CHOOSE k \in throwing : \A j \in throwing : k <= j
    IN ProcessLines(a, log, SubSeq(lines, 1, last), SubSeq(LineStarts(chunk), 1, last),
                    base, 1)

\* One turn of the while loop of readStream with a chunk read.
ProcessChunk(a, log, chunk, base) ==
    ProcessLines(a, log, SplitLines(chunk), LineStarts(chunk), base, 1)

\* ----------------------------------------------------------------- state

VARIABLES
    app,            \* the AttentionVisualizer object and the elements it writes
    inputValue,     \* the value of the text input (e.target.value)
    timers,         \* the browser's pending setTimeout callbacks
    sessions,       \* the requests issued by processText, in order
    sinceCall,      \* ms since the last call of debounceInput (history)
    sinceEvent,     \* ms since the last input or paste event (history)
    timerRequests,  \* requests issued by debounce callbacks since that call (history)
    keyRequests,    \* requests issued by the keydown listener since that call (history)
    lastHandler,    \* the handler that ran last (history)
    pointer         \* the element the mouse pointer is over

vars == <<app, inputValue, timers, sessions, sinceCall, sinceEvent, timerRequests,
          keyRequests, lastHandler, pointer>>

\* The pointer over no element of the page that has a handler.
Nowhere == [kind |-> "none", index |-> 0]

\* The texts the user may leave in the input.
Texts == { <<" ">>, <<"a">>, <<" ", "b", " ">> }

\* The values the input may hold when the page has loaded: empty, or a text
\* the browser restored into it.
InitialValues == { <<>>, <<"a">> }

Init ==
    /\ app = InitApp
    /\ inputValue \in InitialValues
    /\ timers = {}
    /\ sessions = <<>>
    /\ sinceCall = DebounceDelay
    /\ sinceEvent = DebounceDelay
    /\ timerRequests = 0
    /\ keyRequests = 0
    /\ lastHandler = "constructor"
    /\ pointer = Nowhere

\* ------------------------------------------------------------ the timers

TimerIds(tm) == {t.id : t \in tm}

\* setTimeout returns a handle no pending timer has; `held` is a handle the
\* program still holds.
FreshTimerId(tm, held) ==
    CHOOSE i \in 1..(Cardinality(tm) + 2) :
        /\ i \notin TimerIds(tm) \cup {held}
        /\ \A j \in 1..(i - 1) : j \in TimerIds(tm) \cup {held}

\* clearTimeout left out: the timer of the earlier keystroke stays pending.
clearTimeoutSkipped(tm, handle) == tm

clearTimeout(tm, handle) == {t \in tm : t.id # handle}

\* debounceInput(text): the object and the timer table after the call.
debounceInput(a, tm, text) ==
    LET cleared == IF a.debounceTimer # 0 THEN clearTimeout(tm, a.debounceTimer) ELSE tm
        id == FreshTimerId(cleared, 0)
    IN IF Len(Trim(text)) = 0
       THEN [app |-> hideVisualization(a), timers |-> cleared]
       ELSE [app |-> [a EXCEPT !.debounceTimer = id],
             timers |-> cleared \cup
                 {[id |-> id, kind |-> "debounce", text |-> text, left |-> DebounceDelay]}]

\* A request issued by processText, its fetch pending.
NewSession(text) ==
    [text |-> text, phase |-> "requesting", stream |-> 0, pos |-> 0, log |-> <<>>]

\* A session whose fetch failed (phase "failed") or whose reader has finished
\* (phase "closed"): its request and its stream are no longer held.
Ended(session, phase) ==
    [text |-> <<>>, phase |-> phase, stream |-> 0, pos |-> 0, log |-> <<>>]

\* processText(text) up to its `await fetch`: the object and the requests.
processText(a, ss, text) ==
    IF a.isProcessing
    THEN [app |-> a, sessions |-> ss]
    ELSE [app |-> clearVisualization(showProcessingState([a EXCEPT !.isProcessing = TRUE])),
          sessions |-> Append(ss, NewSession(text))]

\* The model stops before a request beyond MaxSessions.
MayRequest(a) == a.isProcessing \/ Len(sessions) < MaxSessions

\* ---------------------------------------------------------------- actions

\* The `input` listener.
InputEvent(text) ==
    LET r == debounceInput(updateCharCount(app, Len(text)), timers, text)
    IN /\ inputValue' = text
       /\ app' = r.app
       /\ timers' = r.timers
       /\ sinceCall' = 0
       /\ sinceEvent' = 0
       /\ timerRequests' = 0
       /\ lastHandler' = "input"
       /\ pointer' = pointer
       /\ keyRequests' = 0
       /\ UNCHANGED sessions

\* The `paste` listener: its callback is scheduled, the value is read later.
PasteEvent ==
    /\ Cardinality({t \in timers : t.kind = "paste"}) < MaxPastePending
    /\ timers' = timers \cup
          {[id |-> FreshTimerId(timers, app.debounceTimer), kind |-> "paste",
            text |-> <<>>, left |-> PasteDelay]}
    /\ sinceEvent' = 0
    /\ lastHandler' = "paste"
    /\ pointer' = pointer
    /\ keyRequests' = keyRequests
    /\ UNCHANGED <<app, inputValue, sessions, sinceCall, timerRequests>>

\* The callback of the paste listener.
PasteTimeout ==
    \E t \in timers :
        /\ t.kind = "paste" /\ t.left = 0
        /\ LET r == debounceInput(updateCharCount(app, Len(inputValue)),
                                  timers \ {t}, inputValue)
           IN /\ app' = r.app
              /\ timers' = r.timers
        /\ sinceCall' = 0
        /\ timerRequests' = 0
        /\ lastHandler' = "pasteTimeout"
        /\ pointer' = pointer
        /\ keyRequests' = 0
        /\ UNCHANGED <<inputValue, sessions, sinceEvent>>

\* The `keydown` listener, on Ctrl/Cmd+Enter.
KeydownSubmit ==
    /\ MayRequest(app)
    /\ LET r == processText(app, sessions, inputValue)
       IN /\ app' = r.app
          /\ sessions' = r.sessions
    /\ lastHandler' = "keydown"
    /\ pointer' = pointer
    /\ keyRequests' = (IF app.isProcessing THEN keyRequests ELSE 1)
    /\ UNCHANGED <<inputValue, timers, sinceCall, sinceEvent, timerRequests>>

\* The callback of debounceInput's timer.
DebounceTimeout ==
    \E t \in timers :
        /\ t.kind = "debounce" /\ t.left = 0
        /\ MayRequest(app)
        /\ timers' = timers \ {t}
        /\ LET go == ~app.isProcessing /\ Len(Trim(t.text)) > 0
               r == IF go THEN processText(app, sessions, Trim(t.text))
                    ELSE [app |-> app, sessions |-> sessions]
           IN /\ app' = r.app
              /\ sessions' = r.sessions
              /\ timerRequests' = IF go THEN Min(timerRequests + 1, 2) ELSE timerRequests
        /\ lastHandler' = "debounceTimeout"
        /\ pointer' = pointer
        /\ keyRequests' = keyRequests
        /\ UNCHANGED <<inputValue, sinceCall, sinceEvent>>

\* Time passes: by TickStep or up to the next timer, never past a timer due.
Tick ==
    \E d \in {TickStep} \cup {t.left : t \in timers} :
        /\ d > 0
        /\ \A t \in timers : d <= t.left
        /\ timers' = {[t EXCEPT !.left = t.left - d] : t \in timers}
        /\ sinceCall' = Min(sinceCall + d, DebounceDelay)
        /\ sinceEvent' = Min(sinceEvent + d, DebounceDelay)
        /\ \/ timers # {}
           \/ sinceCall < DebounceDelay
           \/ sinceEvent < DebounceDelay
        /\ lastHandler' = "tick"
        /\ pointer' = pointer
        /\ keyRequests' = keyRequests
        /\ UNCHANGED <<app, inputValue, sessions, timerRequests>>

\* fetch resolves with a 2xx response whose body is one of the streams `ids`:
\* handleSSEStream takes its reader.
FetchOkFrom(ids) ==
    \E s \in 1..Len(sessions), id \in ids :
        /\ sessions[s].phase = "requesting"
        /\ sessions' = [sessions EXCEPT ![s].phase = "streaming", ![s].stream = id]
        /\ lastHandler' = "fetchOk"
        /\ pointer' = pointer
        /\ keyRequests' = keyRequests
        /\ UNCHANGED <<app, inputValue, timers, sinceCall, sinceEvent, timerRequests>>

FetchOk == FetchOkFrom(StreamIds)

FetchOkTyping == FetchOkFrom(TypingStreamIds)

\* fetch resolves with another status: processText throws and catches.
FetchHttpError ==
    \E s \in 1..Len(sessions) :
        /\ sessions[s].phase = "requesting"
        /\ sessions' = [sessions EXCEPT ![s] = Ended(sessions[s], "failed")]
        /\ app' = [showError(app, "Error: HTTP error! status: 500")
                   EXCEPT !.isProcessing = FALSE]
        /\ lastHandler' = "fetchHttpError"
        /\ pointer' = pointer
        /\ keyRequests' = keyRequests
        /\ UNCHANGED <<inputValue, timers, sinceCall, sinceEvent, timerRequests>>

\* The catch block of processText without `this.isProcessing = false`.
FetchRejectFlagKept ==
    \E s \in 1..Len(sessions) :
        /\ sessions[s].phase = "requesting"
        /\ sessions' = [sessions EXCEPT ![s] = Ended(sessions[s], "failed")]
        /\ app' = showError(app, "Error: Failed to fetch")
        /\ lastHandler' = "fetchReject"
        /\ pointer' = pointer
        /\ keyRequests' = keyRequests
        /\ UNCHANGED <<inputValue, timers, sinceCall, sinceEvent, timerRequests>>

\* fetch rejects.
FetchReject ==
    \E s \in 1..Len(sessions) :
        /\ sessions[s].phase = "requesting"
        /\ sessions' = [sessions EXCEPT ![s] = Ended(sessions[s], "failed")]
        /\ app' = [showError(app, "Error: Failed to fetch") EXCEPT !.isProcessing = FALSE]
        /\ lastHandler' = "fetchReject"
        /\ pointer' = pointer
        /\ keyRequests' = keyRequests
        /\ UNCHANGED <<inputValue, timers, sinceCall, sinceEvent, timerRequests>>

\* reader.read() gives the next characters of the stream, up to one of the
\* offsets `cuts` allows for it.
ReadUpTo(cuts) ==
    \E s \in 1..Len(sessions) :
        /\ sessions[s].phase = "streaming"
        /\ \E end \in cuts[sessions[s].stream] :
            /\ end > sessions[s].pos
            /\ LET chunk == SubSeq(StreamText(sessions[s].stream), sessions[s].pos + 1, end)
                   r == ProcessChunk(app, sessions[s].log, chunk, sessions[s].pos)
               IN /\ app' = r.app
                  /\ sessions' = [sessions EXCEPT ![s].pos = end, ![s].log = r.log]
        /\ lastHandler' = "readChunk"
        /\ pointer' = pointer
        /\ keyRequests' = keyRequests
        /\ UNCHANGED <<inputValue, timers, sinceCall, sinceEvent, timerRequests>>

\* The stream arrives cut anywhere the model cuts it.
ReadChunk == ReadUpTo(CutOffsets)

\* The stream arrives in one chunk.
ReadWhole == ReadUpTo(EndOffsets)

\* reader.read() gives done: the loop breaks and the finally block runs.
ReadDone ==
    \E s \in 1..Len(sessions) :
        /\ sessions[s].phase = "streaming"
        /\ sessions[s].pos = Len(StreamText(sessions[s].stream))
        /\ sessions' = [sessions EXCEPT ![s] = Ended(sessions[s], "closed")]
        /\ app' = [app EXCEPT !.isProcessing = FALSE]
        /\ lastHandler' = "readDone"
        /\ pointer' = pointer
        /\ keyRequests' = keyRequests
        /\ UNCHANGED <<inputValue, timers, sinceCall, sinceEvent, timerRequests>>

\* reader.read() rejects (the connection dropped): catch, then finally.
ReadError ==
    \E s \in 1..Len(sessions) :
        /\ sessions[s].phase = "streaming"
        /\ sessions' = [sessions EXCEPT ![s] = Ended(sessions[s], "closed")]
        /\ app' = [showError(app, "Connection error occurred") EXCEPT !.isProcessing = FALSE]
        /\ lastHandler' = "readError"
        /\ pointer' = pointer
        /\ keyRequests' = keyRequests
        /\ UNCHANGED <<inputValue, timers, sinceCall, sinceEvent, timerRequests>>

\* The program with the network cutting the streams: requests are submitted
\* from the keyboard, for the text the input holds.
Next ==
    \/ KeydownSubmit
    \/ FetchOk
    \/ FetchHttpError
    \/ FetchReject
    \/ ReadChunk
    \/ ReadDone
    \/ ReadError

\* The page has loaded with a text in the input.
InitWithText == Init /\ Len(Trim(inputValue)) > 0

Spec == InitWithText /\ [][Next]_vars

\* The program with time passing: the debounce timer and the paste listener,
\* each stream arriving in one chunk.
NextTyping ==
    \/ \E text \in Texts : InputEvent(text)
    \/ PasteEvent
    \/ PasteTimeout
    \/ KeydownSubmit
    \/ DebounceTimeout
    \/ Tick
    \/ FetchOkTyping
    \/ FetchHttpError
    \/ FetchReject
    \/ ReadWhole
    \/ ReadDone
    \/ ReadError

SpecTyping == Init /\ [][NextTyping]_vars

\* ------------------------------------------- one message for each read

\* The stages of a response: the backend sends tokenization, tokens,
\* layer_attention, meaningful_attention, relationships, complete in this
\* order, leaving out any of them, or error in place of any of them.
StageOf ==
    [ tokenization |-> 1, tokens |-> 2, layer_attention |-> 3,
      meaningful_attention |-> 4, relationships |-> 5, complete |-> 6, error |-> 6 ]

\* fetch resolves with a stream whose frames each arrive in a chunk of their
\* own (stream 0), the data of each drawn from the sets above.
FetchOkMessages == FetchOkFrom({0})

\* A read gives the one frame of a message of `type` with fields `data`.
Dispatch(type, data) ==
    \E s \in 1..Len(sessions) :
        /\ sessions[s].phase = "streaming"
        /\ sessions[s].stream = 0
        /\ sessions[s].pos < StageOf[type]
        /\ app' = handleSSEData(app, type, data)
        /\ sessions' = [sessions EXCEPT ![s].pos = StageOf[type]]
        /\ lastHandler' = type
        /\ pointer' = pointer
        /\ keyRequests' = keyRequests
        /\ UNCHANGED <<inputValue, timers, sinceCall, sinceEvent, timerRequests>>

TokenizationMessage == Dispatch("tokenization", NoData)

TokensMessage == \E tokens \in TokenSeqs : Dispatch("tokens", [NoData EXCEPT !.tokens = tokens])

LayerAttentionMessage ==
    \E layer \in 0..MaxLayer : Dispatch("layer_attention", [NoData EXCEPT !.layer = layer])

MeaningfulAttentionMessage ==
    \E matrix \in MatricesOf(app.currentTokens) :
        Dispatch("meaningful_attention", [NoData EXCEPT !.matrix = matrix])

RelationshipsMessage ==
    \E rels \in RelationshipSets : Dispatch("relationships", [NoData EXCEPT !.rels = rels])

CompleteMessage == Dispatch("complete", NoData)

ErrorMessage == \E message \in ErrorTexts : Dispatch("error", [NoData EXCEPT !.message = message])

\* reader.read() gives done after the last frame of such a stream.
ReadDoneMessages ==
    \E s \in 1..Len(sessions) :
        /\ sessions[s].phase = "streaming"
        /\ sessions[s].stream = 0
        /\ sessions[s].pos = StageOf["complete"]
        /\ sessions' = [sessions EXCEPT ![s] = Ended(sessions[s], "closed")]
        /\ app' = [app EXCEPT !.isProcessing = FALSE]
        /\ lastHandler' = "readDone"
        /\ pointer' = pointer
        /\ keyRequests' = keyRequests
        /\ UNCHANGED <<inputValue, timers, sinceCall, sinceEvent, timerRequests>>

\* Ctrl/Cmd+Enter has been pressed on a text: processText waits for its fetch.
InitMessages ==
    LET r == processText(InitApp, <<>>, <<"a">>)
    IN /\ app = r.app
       /\ inputValue = <<"a">>
       /\ timers = {}
       /\ sessions = r.sessions
       /\ sinceCall = DebounceDelay
       /\ sinceEvent = DebounceDelay
       /\ timerRequests = 0
       /\ keyRequests = 1
       /\ lastHandler = "keydown"
       /\ pointer = Nowhere

\* One session with each message arriving in a read of its own.
NextMessages ==
    \/ FetchOkMessages
    \/ TokenizationMessage
    \/ TokensMessage
    \/ LayerAttentionMessage
    \/ MeaningfulAttentionMessage
    \/ RelationshipsMessage
    \/ CompleteMessage
    \/ ErrorMessage
    \/ ReadDoneMessages

SpecMessages == InitMessages /\ [][NextMessages]_vars

\* ------------------------------------------- the pointer over the views

\* tokens.data, meaningful_attention.data and relationships.data of the
\* responses whose views the pointer moves over.
ViewTokenSeqs == {TokensA, TokensB, TokensSentence}

ViewMatrices(tokens) ==
    CASE tokens = TokensSentence -> {MatrixSentence(1), MatrixSentence(2)}
      [] tokens = TokensA -> {MatrixA}
      [] OTHER -> {MatrixOf(Len(tokens), Len(tokens), 1, 1, 0)}

RelsView ==
    << [from_token |-> TokA, to_token |-> TokCat, strength |-> 300],
       [from_token |-> TokMouse, to_token |-> TokThe, strength |-> 200] >>

ViewRelationshipSets == {RelsA, RelsView}

\* The rectangles getBoundingClientRect gives for the container: none while
\* it is not laid out, a narrow one, a low one.
Viewports == {<<0, 0>>, <<320, 480>>, <<800, 150>>}

\* The messages arrive while the pointer is over no element.
TokensMessageView ==
    /\ pointer = Nowhere
    /\ \E tokens \in ViewTokenSeqs : Dispatch("tokens", [NoData EXCEPT !.tokens = tokens])

MeaningfulAttentionMessageView ==
    /\ pointer = Nowhere
    /\ \E matrix \in ViewMatrices(app.currentTokens) :
          Dispatch("meaningful_attention", [NoData EXCEPT !.matrix = matrix])

RelationshipsMessageView ==
    /\ pointer = Nowhere
    /\ \E rels \in ViewRelationshipSets :
          Dispatch("relationships", [NoData EXCEPT !.rels = rels])

CompleteMessageView ==
    /\ pointer = Nowhere
    /\ Dispatch("complete", NoData)

\* A handler of the page that changes `app` alone.
Handles(name, a, p) ==
    /\ app' = a
    /\ pointer' = p
    /\ keyRequests' = keyRequests
    /\ lastHandler' = name
    /\ UNCHANGED <<inputValue, timers, sessions, sinceCall, sinceEvent, timerRequests>>

\* The window is resized, the pointer on its edge.
Resize ==
    /\ pointer = Nowhere
    /\ \E rect \in Viewports : Handles("resize", resize(app, rect), Nowhere)

\* The pointer enters, clicks and leaves the token chip of display index d - 1.
ChipMouseEnter ==
    /\ pointer = Nowhere
    /\ \E d \in 1..Len(app.tokensDisplay) :
          Handles("chipMouseEnter", highlightToken(app, app.tokensDisplay[d].dataIndex),
                  [kind |-> "chip", index |-> d])

ChipClick ==
    /\ pointer.kind = "chip"
    /\ Handles("chipClick", focusToken(app, app.tokensDisplay[pointer.index].dataIndex),
               pointer)

ChipMouseLeave ==
    /\ pointer.kind = "chip"
    /\ Handles("chipMouseLeave", unhighlightTokens(app), Nowhere)

\* The pointer enters, clicks and leaves the circle of display index i - 1.
CircleMouseEnter ==
    /\ pointer = Nowhere
    /\ \E i \in 1..Len(app.svg.circles) :
          Handles("circleMouseEnter", highlightWordConnections(app, app.svg.circles[i].index),
                  [kind |-> "circle", index |-> i])

CircleClick ==
    /\ pointer.kind = "circle"
    /\ Handles("circleClick", focusToken(app, app.svg.circles[pointer.index].index), pointer)

CircleMouseLeave ==
    /\ pointer.kind = "circle"
    /\ Handles("circleMouseLeave", unhighlightTokens(app), Nowhere)

\* The pointer moves over and off line k of the graph.
LineMouseOver ==
    /\ pointer = Nowhere
    /\ \E k \in 1..Len(app.svg.lines) :
          Handles("lineMouseOver", lineMouseOver(app, k), [kind |-> "line", index |-> k])

LineMouseOut ==
    /\ pointer.kind = "line"
    /\ Handles("lineMouseOut", lineMouseOut(app, pointer.index), Nowhere)

\* The pointer enters and leaves item k of the relationship list.
ItemMouseEnter ==
    /\ pointer = Nowhere
    /\ \E k \in 1..Len(app.relationshipsList) :
          /\ app.relationshipsList[k].kind = "relationship"
          /\ Handles("itemMouseEnter", relationshipItemMouseEnter(app, k),
                     [kind |-> "item", index |-> k])

ItemMouseLeave ==
    /\ pointer.kind = "item"
    /\ Handles("itemMouseLeave", unhighlightTokens(app), Nowhere)

\* One response, the window resized and the pointer moving over the views.
NextView ==
    \/ FetchOkMessages
    \/ TokensMessageView
    \/ MeaningfulAttentionMessageView
    \/ RelationshipsMessageView
    \/ CompleteMessageView
    \/ ReadDoneMessages
    \/ Resize
    \/ ChipMouseEnter
    \/ ChipClick
    \/ ChipMouseLeave
    \/ CircleMouseEnter
    \/ CircleClick
    \/ CircleMouseLeave
    \/ LineMouseOver
    \/ LineMouseOut
    \/ ItemMouseEnter
    \/ ItemMouseLeave

SpecView == InitMessages /\ [][NextView]_vars

\* ----------------------------------------------------------------- claims

SessionIds == 1..Len(sessions)

\* Requesting or Streaming: the request is issued and its stream is not read
\* to the end.
InFlight(session) == session.phase \in {"requesting", "streaming"}

\* The reader of session s takes a chunk in this step and dispatches from it.
Dispatches(s) ==
    /\ lastHandler' = "readChunk"
    /\ sessions[s].phase = "streaming"
    /\ Len(sessions'[s].log) > Len(sessions[s].log)

\* The reader of session s reaches end-of-data in this step.
ReachesEnd(s) ==
    /\ lastHandler' = "readDone"
    /\ sessions[s].phase = "streaming"
    /\ sessions'[s].phase = "closed"

\* The reader of session s finishes in this step, at end-of-data or on a failed read.
Finishes(s) ==
    /\ lastHandler' \in {"readDone", "readError"}
    /\ sessions[s].phase = "streaming"
    /\ sessions'[s].phase = "closed"

\* The session state and the three rendered views.
SessionView(a) ==
    <<a.currentTokens, a.currentAttentionData, a.currentRelationships, a.isProcessing,
      a.tokensDisplay, a.relationshipsList, a.relationshipsContainerHidden, a.svg,
      a.visualizationSectionHidden>>

\* C1: at most one session is Requesting or Streaming at any time.
C1_SingleFlight ==
    Cardinality({s \in SessionIds : InFlight(sessions[s])}) <= 1

\* C2: once a newer session has started, no message of an older stream changes
\* the session state or a rendered view.
C2_StaleDiscarded ==
    [][\A s \in SessionIds :
          (s < Len(sessions) /\ Dispatches(s)) => SessionView(app') = SessionView(app)]_vars

\* C3: a non-empty text entered while a session is in flight aborts that
\* session, and the debounce callback for a non-empty text always issues the
\* request for it.
C3_NewTextRestarts ==
    [][/\ (lastHandler' = "input" /\ inputValue' # inputValue /\ Len(Trim(inputValue')) > 0)
            => \A s \in SessionIds : ~InFlight(sessions'[s])
       /\ lastHandler' = "debounceTimeout"
            => \A t \in timers \ timers' :
                  Len(Trim(t.text)) > 0
                      => /\ Len(sessions') = Len(sessions) + 1
                         /\ sessions'[Len(sessions')].text = Trim(t.text)]_vars

\* C4 as stated: a request of the debounce callback comes no earlier than
\* 1000 ms after the last input or paste event.
C4_QuietSinceLastEvent ==
    [][(lastHandler' = "debounceTimeout" /\ Len(sessions') > Len(sessions))
          => sinceEvent >= DebounceDelay]_vars

\* C4, amended: the debounce timer is single-slot, counted from the calls of
\* debounceInput (an input event, or the callback 10 ms after a paste event).
\* At most one debounce timer is pending; its callback runs no earlier than
\* 1000 ms after the last call, issues a request exactly when no session is
\* processing, with the trimmed text of the last call, and no second request
\* follows from the same burst.
C4_SingleSlotDebounce ==
    /\ [](Cardinality({t \in timers : t.kind = "debounce"}) <= 1 /\ timerRequests <= 1)
    /\ [][lastHandler' = "debounceTimeout"
            => \A t \in timers \ timers' :
                  /\ sinceCall >= DebounceDelay
                  /\ t.text = inputValue
                  /\ Len(Trim(t.text)) > 0
                  /\ IF app.isProcessing
                     THEN sessions' = sessions
                     ELSE /\ Len(sessions') = Len(sessions) + 1
                          /\ sessions'[Len(sessions')] = NewSession(Trim(inputValue))]_vars

\* C4 happens: the callback has issued a request for " b " as "b".
C4_Witness ==
    /\ lastHandler = "debounceTimeout"
    /\ timerRequests = 1
    /\ Len(sessions) = 2
    /\ sessions[2] = NewSession(<<"b">>)

\* C5: no request carries a text that is empty after trimming.
C5_NoEmptyRequest ==
    \A s \in SessionIds :
        sessions[s].phase = "requesting" => Len(Trim(sessions[s].text)) > 0

\* C6: after an input event whose text is empty after trimming, no debounce
\* timer is pending, the visualization section is hidden, and the token list,
\* the relationship list, the graph and the stored tokens, matrix and
\* relationships are empty.
C6_EmptyInputClears ==
    (lastHandler = "input" /\ Len(Trim(inputValue)) = 0)
        => /\ \A t \in timers : t.kind # "debounce"
           /\ app.visualizationSectionHidden
           /\ app.tokensDisplay = <<>>
           /\ app.relationshipsList = <<>>
           /\ app.svg = SvgEmpty
           /\ app.currentTokens = <<>>
           /\ app.currentAttentionData = Null
           /\ app.currentRelationships = <<>>

\* C6 happens: the input was emptied while a stream that had shown its tokens
\* and its graph was still open.
C6_Witness ==
    /\ lastHandler = "input"
    /\ Len(Trim(inputValue)) = 0
    /\ app.visualizationSectionHidden
    /\ app.debounceTimer # 0
    /\ \E s \in SessionIds :
          /\ sessions[s].phase = "streaming"
          /\ \E i \in 1..Len(sessions[s].log) : sessions[s].log[i].key = "complete"

\* What the reader dispatches for a stream that arrives in one chunk.
UncutLog(id) == ProcessChunk(InitApp, <<>>, StreamText(id), 0).log

\* C7: however the stream was cut, at end-of-data the messages dispatched are
\* those of the uncut stream.
C7_CutsLoseNothing ==
    [][\A s \in SessionIds :
          ReachesEnd(s) => sessions[s].log = UncutLog(sessions[s].stream)]_vars

\* The messages of log entries from+1 onwards applied one after the other.
RECURSIVE ApplyFrom(_, _, _)
ApplyFrom(a, log, from) ==
    IF from >= Len(log) THEN a
    ELSE ApplyFrom(handleSSEMessage(a, log[from + 1].key), log, from + 1)

\* The text of the stream at offset off is the frame of message key.
IsFrameAt(id, off, key) ==
    LET frame == Frame(Json(key))
    IN /\ off + Len(frame) <= Len(StreamText(id))
       /\ SubSeq(StreamText(id), off + 1, off + Len(frame)) = frame

\* C8: the messages of a stream are dispatched in the order of their frames,
\* each frame at most once, and a read leaves the state that applying its
\* messages one after the other in that order gives.
C8_InOrder ==
    /\ [](\A s \in SessionIds :
            /\ \A i \in 1..Len(sessions[s].log) :
                  IsFrameAt(sessions[s].stream, sessions[s].log[i].off, sessions[s].log[i].key)
            /\ \A i, j \in 1..Len(sessions[s].log) :
                  i < j => sessions[s].log[i].off < sessions[s].log[j].off)
    /\ [][\A s \in SessionIds :
            Dispatches(s) => app' = ApplyFrom(app, sessions'[s].log, Len(sessions[s].log))]_vars

\* C8 happens: one read has dispatched the three messages of a stream.
C8_Witness ==
    /\ lastHandler = "readChunk"
    /\ \E s \in SessionIds :
          /\ sessions[s].pos = Len(StreamText(sessions[s].stream))
          /\ Len(sessions[s].log) = 3
          /\ sessions[s].log[3].key = "complete"
    /\ app.processingStatus.text = "Complete!"

\* The offset at which frame k of a stream starts.
RECURSIVE FrameStart(_, _)
FrameStart(id, k) ==
    IF k = 1 THEN 0 ELSE FrameStart(id, k - 1) + Len(Frame(StreamFrames[id][k - 1]))

WellFormed(id, k) == JsonParse(StreamFrames[id][k]).ok

\* C9: a read of exactly one malformed frame changes nothing, and at
\* end-of-data every well-formed frame that followed a malformed one has been
\* dispatched.
C9_MalformedSkipped ==
    [][\A s \in SessionIds :
          LET id == sessions[s].stream
          IN /\ \A k \in 1..Len(StreamFrames[IF id = 0 THEN 1 ELSE id]) :
                  ( /\ lastHandler' = "readChunk"
                    /\ sessions[s].phase = "streaming"
                    /\ ~WellFormed(id, k)
                    /\ sessions[s].pos = FrameStart(id, k)
                    /\ sessions'[s].pos = FrameStart(id, k) + Len(Frame(StreamFrames[id][k])) )
                  => app' = app
             /\ ReachesEnd(s)
                  => \A k, m \in 1..Len(StreamFrames[id]) :
                        (k < m /\ ~WellFormed(id, k) /\ WellFormed(id, m))
                            => \E i \in 1..Len(sessions[s].log) :
                                  sessions[s].log[i].off = FrameStart(id, m)]_vars

\* The messages that mark their session done.
IsTerminal(key) == TypeOf[key] \in {"complete", "error"}

\* C10: when the reader of a stream finishes, that is the one time the session
\* is marked done: no message of the stream has marked it done before.
C10_SignalledOnce ==
    [][\A s \in SessionIds :
          Finishes(s) => \A i \in 1..Len(sessions[s].log) : ~IsTerminal(sessions[s].log[i].key)]_vars

\* The status text each transport error shows.
TransportErrorText ==
    [ fetchHttpError |-> "Error: HTTP error! status: 500",
      fetchReject |-> "Error: Failed to fetch",
      readError |-> "Connection error occurred" ]

\* C11: a fetch rejection, a non-2xx status or a failed read leaves its one
\* error message as the status, in the error style, the processing flag
\* cleared and the progress indicator hidden; the step issues no request and
\* schedules no timer, and requests come only from the keyboard or from the
\* debounce callback.
C11_TransportError ==
    [][/\ lastHandler' \in DOMAIN TransportErrorText
            => /\ app'.processingStatus =
                     [text |-> TransportErrorText[lastHandler'],
                      className |-> "text-sm text-red-600"]
               /\ ~app'.isProcessing
               /\ app'.progressIndicatorHidden
               /\ ~app'.textInputProcessing
               /\ Len(sessions') = Len(sessions)
               /\ timers' = timers
               /\ \A s \in SessionIds : sessions'[s].phase # "requesting"
                                       \/ sessions[s].phase = "requesting"
       /\ Len(sessions') > Len(sessions)
            => lastHandler' \in {"keydown", "debounceTimeout"}]_vars

\* C11 happens: the read of an open stream has failed while the indicator was shown.
C11_Witness ==
    /\ lastHandler = "readError"
    /\ app.processingStatus.text = "Connection error occurred"
    /\ app.progressIndicatorHidden
    /\ \E s \in SessionIds : sessions[s].phase = "closed"

\* C13: whatever a session met (a failed fetch or read, a malformed frame, too
\* few words for a graph, an `error` message), once no request or stream is
\* left open the processing flag is clear, and the debounce callback for a
\* non-empty text then issues a new request.
C13_Recoverable ==
    /\ []((\A s \in SessionIds : ~InFlight(sessions[s])) => ~app.isProcessing)
    /\ [][(/\ lastHandler' = "debounceTimeout"
            /\ \A s \in SessionIds : ~InFlight(sessions[s]))
              => \A t \in timers \ timers' :
                    Len(Trim(t.text)) > 0
                        => /\ Len(sessions') = Len(sessions) + 1
                           /\ sessions'[Len(sessions')] = NewSession(Trim(t.text))
                           /\ app'.isProcessing]_vars

\* C13 happens: after a session that ended with an error shown, the debounce
\* callback has issued the next request.
C13_Witness ==
    /\ lastHandler = "debounceTimeout"
    /\ Len(sessions) = 2
    /\ ~InFlight(sessions[1])
    /\ sessions[2].phase = "requesting"
    /\ app.isProcessing
    /\ app.processingStatus.className = "text-sm text-red-600"

\* The tokens (the matrix) of the last `tokens` (`meaningful_attention`)
\* message among the first k entries of a log; none: what processText left.
RECURSIVE OwnTokens(_, _)
OwnTokens(log, k) ==
    IF k = 0 THEN <<>>
    ELSE IF TypeOf[log[k].key] = "tokens" THEN Payload[log[k].key].tokens
    ELSE OwnTokens(log, k - 1)

RECURSIVE OwnMatrix(_, _)
OwnMatrix(log, k) ==
    IF k = 0 THEN Null
    ELSE IF TypeOf[log[k].key] = "meaningful_attention" THEN Matrix(Payload[log[k].key].matrix)
    ELSE OwnMatrix(log, k - 1)

\* The read of session s dispatches, and the last message it dispatches is `complete`.
DispatchesComplete(s) ==
    /\ Dispatches(s)
    /\ TypeOf[sessions'[s].log[Len(sessions'[s].log)].key] = "complete"

\* C14: when `complete` is dispatched for a session, the graph is rendered from
\* the tokens and the matrix that session's own messages brought, and the
\* session is marked done: flag cleared, indicator hidden, status Complete.
C14_CompleteRendersOwnData ==
    [][\A s \in SessionIds :
          DispatchesComplete(s)
              => LET log == sessions'[s].log
                     before == ApplyFrom(app, SubSeq(log, 1, Len(log) - 1), Len(sessions[s].log))
                     own == [before EXCEPT !.currentTokens = OwnTokens(log, Len(log) - 1),
                                           !.currentAttentionData = OwnMatrix(log, Len(log) - 1)]
                 IN /\ before.currentTokens = own.currentTokens
                    /\ before.currentAttentionData = own.currentAttentionData
                    /\ app'.svg = renderAttentionVisualization(own).svg
                    /\ ~app'.isProcessing
                    /\ app'.progressIndicatorHidden
                    /\ app'.processingStatus.text = "Complete!"]_vars

\* The fields of an `error`, `meaningful_attention`, `relationships` and
\* `layer_attention` message.
ErrorData(message) == [NoData EXCEPT !.message = message]

MatrixData(matrix) == [NoData EXCEPT !.matrix = matrix]

RelsData(rels) == [NoData EXCEPT !.rels = rels]

LayerData(layer) == [NoData EXCEPT !.layer = layer]

ShowsRelationship(item, rel) ==
    /\ item.kind = "relationship"
    /\ item.fromToken = rel.from_token
    /\ item.toToken = rel.to_token
    /\ item.strength = rel.strength

\* C15: a `meaningful_attention` message stores its matrix; a `relationships`
\* message stores its data and at once, with no `complete` dispatched yet,
\* shows a list built from that data: its word relationships, or the
\* placeholder when it has none.
C15_StoreAndRender ==
    [][/\ \A matrix \in MatricesOf(app.currentTokens) :
              Dispatch("meaningful_attention", MatrixData(matrix))
                  => app'.currentAttentionData = Matrix(matrix)
       /\ \A rels \in RelationshipSets :
              Dispatch("relationships", RelsData(rels))
                  => /\ app'.currentRelationships = rels
                     /\ ~app'.relationshipsContainerHidden
                     /\ Len(app'.relationshipsList) > 0
                     /\ \/ \A k \in 1..Len(app'.relationshipsList) :
                              \E r \in 1..Len(rels) :
                                 ShowsRelationship(app'.relationshipsList[k], rels[r])
                        \/ /\ Len(app'.relationshipsList) = 1
                           /\ app'.relationshipsList[1].kind = "placeholder"
                     /\ app'.processingStatus.text # "Complete!"
                     /\ app'.isProcessing]_vars

\* C15 happens: the list shows the one word relationship of a message, the
\* graph not drawn yet.
C15_Witness ==
    /\ lastHandler = "relationships"
    /\ app.currentRelationships = RelsA
    /\ ~app.currentAttentionData.isNull
    /\ Len(app.relationshipsList) = 1
    /\ ShowsRelationship(app.relationshipsList[1], RelsA[1])
    /\ app.svg = SvgEmpty

\* C16: a `tokenization` or `layer_attention` message changes the status text
\* and the layer text and nothing else: not the stored data, not the flag,
\* not a view.
C16_StatusOnly ==
    [][(\/ Dispatch("tokenization", NoData)
        \/ \E layer \in 0..MaxLayer : Dispatch("layer_attention", LayerData(layer)))
          => /\ SessionView(app') = SessionView(app)
             /\ [app' EXCEPT !.processingStatus = app.processingStatus,
                             !.layerInfo = app.layerInfo] = app
             /\ app'.processingStatus # app.processingStatus]_vars

\* C16 happens: a `layer_attention` message came with the token list shown.
C16_Witness ==
    /\ lastHandler = "layer_attention"
    /\ app.tokensDisplay # <<>>
    /\ app.layerInfo = "Processing layer 1"
    /\ app.processingStatus.text = "Processing layer 1..."

\* C17: the original indices of the token chips are strictly increasing with
\* their display index.
C17_OwnPosition ==
    \A i, j \in 1..Len(app.tokensDisplay) :
        i < j => app.tokensDisplay[i].dataIndex < app.tokensDisplay[j].dataIndex

\* The exclusion rule: a structural marker, a subword continuation, an empty
\* token, or a bare mark.
IsExcluded(token) ==
    \/ StartsWith(token, <<"[">>)
    \/ StartsWith(token, <<"#", "#">>)
    \/ token = <<>>
    \/ token \in {<<".">>, <<",">>, <<"!">>, <<"?">>}

IsMeaningful(token) == ~IsExcluded(token)

\* C18: the token chips show exactly the tokens the rule does not exclude, in
\* order, and the nodes of a drawn graph show the same sequence with the same
\* display indices.
C18_SameSequence ==
    LET meaningful == SelectSeq(app.currentTokens, IsMeaningful)
    IN /\ Len(app.tokensDisplay) = Len(meaningful)
       /\ \A d \in 1..Len(app.tokensDisplay) :
             /\ app.tokensDisplay[d].text = meaningful[d]
             /\ app.tokensDisplay[d].displayIndex = d - 1
       /\ app.svg.circles # <<>>
             => /\ Len(app.svg.labels) = Len(meaningful)
                /\ Len(app.svg.circles) = Len(meaningful)
                /\ \A d \in 1..Len(app.svg.labels) :
                      /\ d <= Len(meaningful)
                      /\ app.svg.labels[d].text = meaningful[d]
                      /\ app.svg.labels[d].index = d - 1

\* The graph of the stored tokens and matrix has been laid out.
GraphLaidOut ==
    /\ app.processingStatus.text = "Complete!"
    /\ Len(app.currentTokens) > 0
    /\ ~app.currentAttentionData.isNull
    /\ Len(FilteredTokenData(app.currentTokens)) >= 2

\* The attention from the node of display index i to that of display index j
\* (-1 when the matrix has no such entry), and the pairs the selector may keep.
StrengthAt(i, j) ==
    LET positions == Positions(FilteredTokenData(app.currentTokens), app.width, app.height)
        rows == app.currentAttentionData.rows
        fromIdx == positions[i + 1].originalIndex
        toIdx == positions[j + 1].originalIndex
    IN IF fromIdx < Len(rows) /\ toIdx < Len(rows[fromIdx + 1])
       THEN rows[fromIdx + 1][toIdx + 1] ELSE -1

NodeIndices == 0..(Len(FilteredTokenData(app.currentTokens)) - 1)

CandidatePairs ==
    {p \in NodeIndices \X NodeIndices : p[1] # p[2] /\ StrengthAt(p[1], p[2]) > 50}

SelectedPairs == {<<app.svg.lines[k].fromIndex, app.svg.lines[k].toIndex>> :
                     k \in 1..Len(app.svg.lines)}

\* C19: the connections drawn are at most 12, each between two different
\* nodes with the strength the matrix gives, above 0.05, in non-increasing
\* order of strength, and no pair left out is stronger than one drawn.
C19_TopConnections ==
    GraphLaidOut
        => LET lines == app.svg.lines
           IN /\ Len(lines) <= 12
              /\ \A k \in 1..Len(lines) :
                    /\ lines[k].fromIndex # lines[k].toIndex
                    /\ lines[k].strength > 50
                    /\ lines[k].strength = StrengthAt(lines[k].fromIndex, lines[k].toIndex)
              /\ \A k, l \in 1..Len(lines) :
                    k < l => /\ lines[k].strength >= lines[l].strength
                             /\ <<lines[k].fromIndex, lines[k].toIndex>>
                                   # <<lines[l].fromIndex, lines[l].toIndex>>
              /\ \A p \in CandidatePairs \ SelectedPairs :
                    /\ Len(lines) = 12
                    /\ \A k \in 1..Len(lines) : StrengthAt(p[1], p[2]) <= lines[k].strength

\* C19 happens: twelve connections are drawn, of several strengths, and a
\* pair above the threshold is left out.
C19_Witness ==
    /\ GraphLaidOut
    /\ Len(app.svg.lines) = 12
    /\ app.svg.lines[1].strength > app.svg.lines[12].strength
    /\ CandidatePairs \ SelectedPairs # {}

\* The place of a pair in the row-major enumeration of the display indices.
RowMajor(i, j) == i * Len(FilteredTokenData(app.currentTokens)) + j

\* C20: connections of equal strength are drawn in row-major order of their
\* display indices, and a pair left out comes, in that order, after every
\* drawn pair of its strength.
C20_TiesRowMajor ==
    GraphLaidOut
        => LET lines == app.svg.lines
           IN /\ \A k, l \in 1..Len(lines) :
                    (k < l /\ lines[k].strength = lines[l].strength)
                        => RowMajor(lines[k].fromIndex, lines[k].toIndex)
                              < RowMajor(lines[l].fromIndex, lines[l].toIndex)
              /\ \A p \in CandidatePairs \ SelectedPairs :
                    \A k \in 1..Len(lines) :
                        lines[k].strength = StrengthAt(p[1], p[2])
                            => RowMajor(lines[k].fromIndex, lines[k].toIndex)
                                  < RowMajor(p[1], p[2])

\* C20 happens: the cut to twelve falls among pairs of one strength.
C20_Witness ==
    /\ GraphLaidOut
    /\ Len(app.svg.lines) = 12
    /\ \E p \in CandidatePairs \ SelectedPairs :
          StrengthAt(p[1], p[2]) = app.svg.lines[12].strength

\* The index in the message's token list of the token of display index d.
OriginalIndexOf(d) == FilteredTokenData(app.currentTokens)[d + 1].originalIndex

\* matrix[r][c] of the stored matrix, -1 where it has no such entry.
MatrixEntry(r, c) ==
    LET rows == app.currentAttentionData.rows
    IN IF r < Len(rows) /\ c < Len(rows[r + 1]) THEN rows[r + 1][c + 1] ELSE -1

\* The pairs drawn before cat -> the (display 1 -> 0, strength 0.4) when there
\* is room: the stronger ones, and with `ties` the equally strong ones that
\* come earlier in row-major order.
AheadOfCatThe(ties) ==
    {p \in CandidatePairs \ {<<1, 0>>} :
        \/ StrengthAt(p[1], p[2]) > 400
        \/ ties /\ StrengthAt(p[1], p[2]) = 400 /\ RowMajor(p[1], p[2]) < RowMajor(1, 0)}

DrawsCatThe ==
    \E k \in 1..Len(app.svg.lines) :
        /\ app.svg.lines[k].fromIndex = 1
        /\ app.svg.lines[k].toIndex = 0
        /\ app.svg.lines[k].strength = 400

SentenceLaidOut ==
    /\ GraphLaidOut
    /\ app.currentTokens = TokensSentence
    /\ MatrixEntry(2, 1) = 400

\* Each connection drawn has the strength matrix[originalIndex(i)][originalIndex(j)].
StrengthByOriginalIndex ==
    GraphLaidOut
        => \A k \in 1..Len(app.svg.lines) :
              app.svg.lines[k].strength =
                  MatrixEntry(OriginalIndexOf(app.svg.lines[k].fromIndex),
                              OriginalIndexOf(app.svg.lines[k].toIndex))

\* C21 as stated: the strength of a connection is
\* matrix[originalIndex(i)][originalIndex(j)], and for [CLS] the cat chased
\* the mouse . [SEP] with matrix[2][1] = 0.4 the connection cat -> the
\* (display 1 -> 0, strength 0.4) is drawn whenever fewer than 12 other pairs
\* are stronger.
C21_StrongerOnly ==
    /\ StrengthByOriginalIndex
    /\ (SentenceLaidOut /\ Cardinality(AheadOfCatThe(FALSE)) < 12) => DrawsCatThe

\* C21 (amended): the strength of a connection is
\* matrix[originalIndex(i)][originalIndex(j)], and for [CLS] the cat chased
\* the mouse . [SEP] with matrix[2][1] = 0.4 the connection cat -> the
\* (display 1 -> 0, strength 0.4) is drawn whenever fewer than 12 other pairs
\* are stronger, or equally strong and earlier in row-major order.
C21_OriginalIndexStrength ==
    /\ StrengthByOriginalIndex
    /\ (SentenceLaidOut /\ Cardinality(AheadOfCatThe(TRUE)) < 12) => DrawsCatThe

\* C21 happens: cat -> the is drawn with the 0.4 of matrix[2][1], the entry
\* matrix[1][0] at its display indices being another.
C21_Witness ==
    /\ SentenceLaidOut
    /\ DrawsCatThe
    /\ MatrixEntry(1, 0) # 400

\* `complete` has rendered the stored tokens and matrix.
Rendered ==
    /\ app.processingStatus.text = "Complete!"
    /\ Len(app.currentTokens) > 0
    /\ ~app.currentAttentionData.isNull

NoVisualizationMessages ==
    {"Not enough meaningful words to visualize attention patterns",
     "No significant attention patterns between words detected"}

C23_WithinPadding ==
    \A i \in 1..Len(app.svg.circles) :
        /\ Px(Padding) <= app.svg.circles[i].cx
        /\ app.svg.circles[i].cx <= Px(app.width - Padding)
        /\ Px(Padding) <= app.svg.circles[i].cy
        /\ app.svg.circles[i].cy <= Px(app.height - Padding)

\* The entries of a relationships payload the list may show.
Qualifies(rel) ==
    /\ IsMeaningful(rel.from_token)
    /\ IsMeaningful(rel.to_token)
    /\ rel.strength > 30

IsPlaceholder(list) == Len(list) = 1 /\ list[1].kind = "placeholder"

\* C24: the list built from a relationships payload has at most 8 items, each
\* showing an entry of the payload of strength above 0.03 whose two tokens
\* are meaningful words, in non-increasing order of strength; if the payload
\* has no such entry the list is the placeholder alone.
C24_RelationshipList ==
    ~app.relationshipsContainerHidden
        => LET list == app.relationshipsList
               rels == app.currentRelationships
           IN IF \E r \in 1..Len(rels) : Qualifies(rels[r])
              THEN /\ Len(list) \in 1..8
                   /\ \A k \in 1..Len(list) :
                         /\ list[k].kind = "relationship"
                         /\ list[k].strength > 30
                         /\ \E r \in 1..Len(rels) :
                               /\ Qualifies(rels[r])
                               /\ ShowsRelationship(list[k], rels[r])
                   /\ \A k, l \in 1..Len(list) :
                         k < l => list[k].strength >= list[l].strength
              ELSE IsPlaceholder(list)

\* C24 happens: eight items are shown of a payload with more than eight
\* entries that qualify.
C24_Witness ==
    /\ ~app.relationshipsContainerHidden
    /\ Len(app.relationshipsList) = 8
    /\ Len(SelectSeq(app.currentRelationships, Qualifies)) > 8

\* The list displayRelationships builds from this payload with no tokens and
\* no matrix stored, and the connections drawn for these tokens and this
\* matrix with no relationships stored.
ListOf(rels) == displayRelationships(InitApp, rels).relationshipsList

ConnectionsOf(tokens, matrix) ==
    renderAttentionVisualization(
        [InitApp EXCEPT !.currentTokens = tokens, !.currentAttentionData = matrix]).svg.lines

AllWeak(rels) == rels # <<>> /\ \A r \in 1..Len(rels) : rels[r].strength = 20

\* The list shown is that of the stored payload alone, the connections drawn
\* are those of the stored tokens and matrix alone, and a payload with every
\* entry at 0.02 shows no relationship item.
EachFromItsOwnData ==
    /\ ~app.relationshipsContainerHidden
          => app.relationshipsList = ListOf(app.currentRelationships)
    /\ Rendered
          => app.svg.lines = ConnectionsOf(app.currentTokens, app.currentAttentionData)
    /\ (~app.relationshipsContainerHidden /\ AllWeak(app.currentRelationships))
          => IsPlaceholder(app.relationshipsList)

\* C25: the relationship list depends on the relationships payload alone and
\* the connections of the graph on the tokens and the matrix alone: a
\* `meaningful_attention` message leaves the list as it is, a `relationships`
\* message leaves the graph as it is, and relationships all of strength 0.02
\* give a list with no item also when connections are drawn.
C25_IndependentFilters ==
    /\ []EachFromItsOwnData
    /\ [][/\ lastHandler' = "meaningful_attention"
               => app'.relationshipsList = app.relationshipsList
          /\ lastHandler' = "relationships" => app'.svg = app.svg]_vars

\* C25 happens: connections are drawn and the list of a payload with every
\* entry at 0.02 shows the placeholder.
C25_Witness ==
    /\ Rendered
    /\ app.svg.lines # <<>>
    /\ AllWeak(app.currentRelationships)
    /\ IsPlaceholder(app.relationshipsList)

\* The smallest display index whose label shows exactly this text, -1 if no
\* label does.
ExactLabelIndex(tokenText) ==
    LET labels == app.svg.labels
        hits == {i \in 1..Len(labels) : labels[i].text = tokenText}
    IN IF hits = {} THEN -1
       ELSE (CHOOSE i \in hits : \A j \in hits : i <= j) - 1

\* C26 as stated: each token text of a relationship item resolves to the
\* smallest display index whose label is that text and to -1 if no label is;
\* a label that only contains the text is no match.
C26_ExactLabelMatch ==
    \A k \in 1..Len(app.relationshipsList) :
        app.relationshipsList[k].kind = "relationship"
            => /\ findTokenDisplayIndex(app, app.relationshipsList[k].fromToken)
                     = ExactLabelIndex(app.relationshipsList[k].fromToken)
               /\ findTokenDisplayIndex(app, app.relationshipsList[k].toToken)
                     = ExactLabelIndex(app.relationshipsList[k].toToken)

\* The handlers of the pointer: those that highlight and those that clear.
HighlightHandlers ==
    {"chipMouseEnter", "chipClick", "circleMouseEnter", "circleClick", "lineMouseOver",
     "itemMouseEnter"}

ClearHandlers == {"chipMouseLeave", "circleMouseLeave", "lineMouseOut", "itemMouseLeave"}

\* The elements of the three views without their presentation: which chips,
\* circles, labels, lines and list items there are, and where.
Primitives(a) ==
    [ chips |-> [k \in 1..Len(a.tokensDisplay) |->
                    [text |-> a.tokensDisplay[k].text,
                     dataIndex |-> a.tokensDisplay[k].dataIndex,
                     displayIndex |-> a.tokensDisplay[k].displayIndex]],
      circles |-> [k \in 1..Len(a.svg.circles) |->
                    [index |-> a.svg.circles[k].index,
                     cx |-> a.svg.circles[k].cx,
                     cy |-> a.svg.circles[k].cy]],
      labels |-> [k \in 1..Len(a.svg.labels) |->
                    [index |-> a.svg.labels[k].index,
                     text |-> a.svg.labels[k].text,
                     x |-> a.svg.labels[k].x,
                     y |-> a.svg.labels[k].y]],
      lines |-> [k \in 1..Len(a.svg.lines) |->
                    [fromIndex |-> a.svg.lines[k].fromIndex,
                     toIndex |-> a.svg.lines[k].toIndex,
                     strength |-> a.svg.lines[k].strength,
                     x1 |-> a.svg.lines[k].x1,
                     y1 |-> a.svg.lines[k].y1,
                     x2 |-> a.svg.lines[k].x2,
                     y2 |-> a.svg.lines[k].y2]],
      groups |-> a.svg.groups,
      texts |-> a.svg.texts,
      center |-> a.svg.center,
      items |-> a.relationshipsList,
      width |-> a.width,
      height |-> a.height ]

\* C27: a handler that highlights or clears, after any others, leaves every
\* chip, circle, label, line and list item in place, none added, removed or
\* moved, and the viewport and the stored data as they are.
C27_PresentationOnly ==
    [][lastHandler' \in HighlightHandlers \cup ClearHandlers
          => /\ Primitives(app') = Primitives(app)
             /\ app'.currentTokens = app.currentTokens
             /\ app'.currentAttentionData = app.currentAttentionData
             /\ app'.currentRelationships = app.currentRelationships]_vars

\* C27 happens: the pointer is on a circle of a graph with lines, one of them
\* dimmed.
C27_Witness ==
    /\ lastHandler = "circleMouseEnter"
    /\ \E k \in 1..Len(app.svg.lines) : app.svg.lines[k].styleOpacity = 200

\* The presentation of the elements: the classes of each chip, circle and
\* label, and the stroke-width, opacity and inline opacity of each line.
Presentation(a) ==
    [ chips |-> [k \in 1..Len(a.tokensDisplay) |-> a.tokensDisplay[k].classes],
      circles |-> [k \in 1..Len(a.svg.circles) |-> a.svg.circles[k].classes],
      labels |-> [k \in 1..Len(a.svg.labels) |-> a.svg.labels[k].classes],
      lines |-> [k \in 1..Len(a.svg.lines) |->
                    [strokeWidth |-> a.svg.lines[k].strokeWidth,
                     opacity |-> a.svg.lines[k].opacity,
                     styleOpacity |-> a.svg.lines[k].styleOpacity]] ]

\* C28 as stated: with the pointer over no element, entering any circle
\* (highlightWordConnections) and leaving it (unhighlightTokens) gives every
\* chip, circle, label and line the classes, opacity and stroke width it had.
C28_ClearRestores ==
    pointer = Nowhere
        => \A i \in 1..Len(app.svg.circles) :
              Presentation(unhighlightTokens(
                  highlightWordConnections(app, app.svg.circles[i].index)))
                 = Presentation(app)

HighlightClasses == {"active", "highlighted", "source", "target"}

\* No chip, circle or label has a highlight class and no line an inline
\* opacity.
AtBaseline(a) ==
    /\ \A k \in 1..Len(a.tokensDisplay) : a.tokensDisplay[k].classes \cap HighlightClasses = {}
    /\ \A k \in 1..Len(a.svg.circles) : a.svg.circles[k].classes \cap HighlightClasses = {}
    /\ \A k \in 1..Len(a.svg.labels) : a.svg.labels[k].classes \cap HighlightClasses = {}
    /\ \A k \in 1..Len(a.svg.lines) : a.svg.lines[k].styleOpacity = NoStyle

\* C29 as stated: whatever was highlighted before, from chips, circles, lines
\* or relationship items, once a handler that clears has run no chip, circle
\* or label has a class active, highlighted, source or target and no line an
\* opacity override.
C29_ClearToBaseline ==
    lastHandler \in ClearHandlers => AtBaseline(app)

\* C30 as stated: when the pointer has entered or clicked the chip of display
\* index d, the chip marked active is that chip and no other, and the circle
\* and the label highlighted in the graph are those of display index d and no
\* others.
C30_SameTokenEverywhere ==
    (lastHandler \in {"chipMouseEnter", "chipClick"} /\ pointer.kind = "chip")
        => LET d == pointer.index
           IN /\ \A k \in 1..Len(app.tokensDisplay) :
                    "active" \in app.tokensDisplay[k].classes <=> k = d
              /\ \A k \in 1..Len(app.svg.circles) :
                    "highlighted" \in app.svg.circles[k].classes <=> k = d
              /\ \A k \in 1..Len(app.svg.labels) :
                    "highlighted" \in app.svg.labels[k].classes <=> k = d

\* The opacity a line is drawn with: its inline style if it has one, else
\* its attribute.
EffectiveOpacity(line) ==
    IF line.styleOpacity = NoStyle THEN line.opacity ELSE line.styleOpacity

\* The pointer has just entered or clicked the circle of display index
\* NodeUnderPointer.
NodeHighlighted ==
    /\ lastHandler \in {"circleMouseEnter", "circleClick"}
    /\ pointer.kind = "circle"

NodeUnderPointer == app.svg.circles[pointer.index].index

PairHighlighted(from, to) ==
    /\ "source" \in app.svg.circles[from + 1].classes
    /\ "target" \in app.svg.circles[to + 1].classes
    /\ from # to => /\ "target" \notin app.svg.circles[from + 1].classes
                    /\ "source" \notin app.svg.circles[to + 1].classes
    /\ \A k \in 1..Len(app.svg.lines) :
          IF app.svg.lines[k].fromIndex = from /\ app.svg.lines[k].toIndex = to
          THEN EffectiveOpacity(app.svg.lines[k]) >= 800
          ELSE /\ app.svg.lines[k].styleOpacity # NoStyle
               /\ EffectiveOpacity(app.svg.lines[k]) <= 200

\* C32 as stated: when the pointer has moved over a line, or has entered a
\* relationship item whose two tokens are labels of the graph, the pair is
\* highlighted in the graph.
C32_PairHighlight ==
    /\ (lastHandler = "lineMouseOver" /\ pointer.kind = "line")
          => PairHighlighted(app.svg.lines[pointer.index].fromIndex,
                             app.svg.lines[pointer.index].toIndex)
    /\ (lastHandler = "itemMouseEnter" /\ pointer.kind = "item")
          => LET from == ExactLabelIndex(app.relationshipsList[pointer.index].fromToken)
                 to == ExactLabelIndex(app.relationshipsList[pointer.index].toToken)
             IN (from # -1 /\ to # -1) => PairHighlighted(from, to)

\* C33: no step of an older session (a chunk read, end-of-data or a failure of
\* its request or its stream) clears the processing flag while the request or
\* the stream of the session started last is in flight.
C33_NewerFlagKept ==
    [][\A s \in SessionIds :
          ( /\ s < Len(sessions)
            /\ sessions'[s] # sessions[s]
            /\ app.isProcessing /\ ~app'.isProcessing )
          => ~InFlight(sessions'[Len(sessions')])]_vars

\* The stored data, the three views and the status line.
DataViewsStatus(a) ==
    <<a.currentTokens, a.currentAttentionData, a.currentRelationships,
      a.tokensDisplay, a.relationshipsList, a.relationshipsContainerHidden, a.svg,
      a.visualizationSectionHidden, a.processingStatus>>

\* C34: once `complete` or `error` of a stream has been dispatched, a later
\* read that dispatches from the same stream changes neither the stored
\* tokens, matrix and relationships, nor a view, nor the status.
C34_TerminalIsFinal ==
    [][\A s \in SessionIds :
          ( /\ Dispatches(s)
            /\ \E i \in 1..Len(sessions[s].log) : IsTerminal(sessions[s].log[i].key) )
          => DataViewsStatus(app') = DataViewsStatus(app)]_vars

\* C35: the callback of the debounce timer issues no request when the keydown
\* listener has issued one since the call of debounceInput that set the timer
\* (the text of the timer is the text that listener sent, up to trimming).
C35_OneRequestPerBurst ==
    [][(lastHandler' = "debounceTimeout" /\ Len(sessions') > Len(sessions))
          => keyRequests = 0]_vars

\* The visualization section is hidden and nothing is stored.
HiddenAndCleared(a) ==
    /\ a.visualizationSectionHidden
    /\ a.currentTokens = <<>>
    /\ a.currentAttentionData = Null
    /\ a.currentRelationships = <<>>

\* C36: while the input is empty and no request has been issued since it
\* became so, a section that is hidden with nothing stored stays so.
C36_EmptyStaysHidden ==
    [][( /\ Len(Trim(inputValue)) = 0 /\ Len(Trim(inputValue')) = 0
         /\ keyRequests' = 0 /\ timerRequests' = 0
         /\ HiddenAndCleared(app) )
          => HiddenAndCleared(app')]_vars

\* C37: whenever the processing flag is clear, the progress indicator is
\* hidden.
C37_IndicatorFollowsFlag ==
    ~app.isProcessing => app.progressIndicatorHidden

\* Frame k of stream id comes after a frame whose message makes
\* handleSSEMessage throw.
AfterThrowingFrame(id, k) ==
    \E j \in 1..(k - 1) :
        /\ WellFormed(id, j)
        /\ Payload[JsonParse(StreamFrames[id][j]).key].tokens = Undefined

\* C38: in every read, each well-formed frame the chunk holds whole that
\* follows a frame whose message throws is dispatched, the dispatches of the
\* chunk are logged in the order of the stream, and when the reader finishes
\* the processing flag is clear.
C38_ThrowDoesNotStop ==
    [][\A s \in SessionIds :
          LET id == sessions[s].stream
              log == sessions'[s].log
          IN /\ ( /\ lastHandler' = "readChunk"
                  /\ sessions[s].phase = "streaming"
                  /\ sessions'[s].pos > sessions[s].pos )
                => /\ \A k \in 1..Len(StreamFrames[id]) :
                        ( /\ WellFormed(id, k)
                          /\ AfterThrowingFrame(id, k)
                          /\ FrameStart(id, k) >= sessions[s].pos
                          /\ FrameStart(id, k) + Len(Frame(StreamFrames[id][k]))
                                <= sessions'[s].pos )
                        => \E i \in (Len(sessions[s].log) + 1)..Len(log) :
                              log[i] = [off |-> FrameStart(id, k),
                                        key |-> JsonParse(StreamFrames[id][k]).key]
                   /\ \A i \in 2..Len(log) : log[i - 1].off < log[i].off
             /\ Finishes(s) => ~app'.isProcessing]_vars

\* A stream has delivered a `tokens` message without data, then `complete`,
\* whose rendering threw, then `relationships`, which was applied.
C38_Witness ==
    \E s \in SessionIds :
        /\ sessions[s].phase = "streaming"
        /\ Len(sessions[s].log) = 3
        /\ sessions[s].log[1].key = "tokensNone"
        /\ sessions[s].log[2].key = "complete"
        /\ sessions[s].log[3].key = "relationships"
        /\ app.currentTokens = Undefined
        /\ app.currentRelationships = RelsA
        /\ app.isProcessing
        /\ app.processingStatus.text = "Finalizing visualization..."

\* The three views are empty and nothing is stored.
ViewsAndDataEmpty(a) ==
    /\ a.tokensDisplay = <<>>
    /\ a.relationshipsList = <<>>
    /\ a.relationshipsContainerHidden
    /\ a.svg = SvgEmpty
    /\ a.currentTokens = <<>>
    /\ a.currentAttentionData = Null
    /\ a.currentRelationships = <<>>

\* C39: a submit from the keyboard or a due debounce timer while the
\* processing flag is set changes neither the object nor the requests; a
\* submit while it is clear issues one request, and a step that issues a
\* request leaves the flag set, the indicator shown, the three views empty
\* and nothing stored.
C39_ProcessTextGuard ==
    [][/\ (lastHandler' \in {"keydown", "debounceTimeout"} /\ app.isProcessing)
            => app' = app /\ sessions' = sessions
       /\ (lastHandler' = "keydown" /\ ~app.isProcessing)
            => Len(sessions') = Len(sessions) + 1
       /\ Len(sessions') > Len(sessions)
            => /\ ~app.isProcessing
               /\ sessions' = Append(sessions, NewSession(sessions'[Len(sessions')].text))
               /\ app'.isProcessing
               /\ ~app'.progressIndicatorHidden
               /\ ViewsAndDataEmpty(app')]_vars

\* A second request has just been issued from the keyboard after a session
\* that had completed: its status is still shown, its data and views are gone.
C39_Witness ==
    /\ lastHandler = "keydown"
    /\ Len(sessions) = 2
    /\ sessions[2].phase = "requesting"
    /\ app.processingStatus.text = "Complete!"
    /\ ~app.visualizationSectionHidden
    /\ ViewsAndDataEmpty(app)

\* The reader of session s takes a chunk in this step from which `complete`
\* and nothing else is dispatched.
DispatchesCompleteAlone(s) ==
    /\ DispatchesComplete(s)
    /\ Len(sessions'[s].log) = Len(sessions[s].log) + 1

\* C40: `complete` dispatched when no tokens are stored or no matrix is
\* stored leaves the graph as it is, shows `Complete!` and no error, clears
\* the processing flag and hides the progress indicator.
C40_CompleteWithoutData ==
    [][\A s \in SessionIds :
          ( /\ DispatchesCompleteAlone(s)
            /\ (app.currentTokens = <<>> \/ app.currentAttentionData = Null) )
          => /\ app'.svg = app.svg
             /\ app'.processingStatus = [text |-> "Complete!", className |-> "text-sm text-blue-600"]
             /\ ~app'.isProcessing
             /\ app'.progressIndicatorHidden]_vars

====
